---- MODULE Spec2Model ----
(***************************************************************************)
(* Dual-backend job queue of the email module:                             *)
(*   MemoryQueueService  (local, in-process backend)                       *)
(*   RedisQueueService   (persistent backend on Redis lists / sorted set)  *)
(*   QueueService        (coordinator: routing, probe, recovery)           *)
(* Time is kept relative to Date.now(), in milliseconds: a timer holds the *)
(* time left until it is due, a job holds the time left until              *)
(* timestamp + opts.delay.  A timer fires when nothing is left; the clock  *)
(* advances from one due time to the next.                                 *)
(***************************************************************************)
EXTENDS Integers, Sequences, FiniteSets, TLC

\* ---------------------------------------------------------------- bounds
MaxJobs == 2            \* add() calls accepted by one backend in a run
LoadJobs == 4           \* add() calls in a run of SpecLoad
BackoffJobs == 1        \* add() calls in a run of SpecBackoff
CoordJobs == 2          \* add() calls in a run of SpecCoord
ScenarioJobs == 2       \* add() calls in a run of SpecScenarioA
SignalJobs == 2         \* add() calls in a run of SpecLocal
ScenarioCJobs == 5      \* add() calls in a run of SpecScenarioC
DeliveryJobs == 1       \* add() calls in a run of SpecDelivery
RoutingJobs == 1        \* add() calls in a run of SpecRouting
GetterJobs == 2         \* add() calls in a run of SpecGetters
BadInputJobs == 2       \* add() calls in a run of SpecBadInput
ShutdownJobs == 2       \* add() calls in a run of SpecShutdown
MaxProbes == 2          \* executions of checkRedisRecovery that can overlap
MaxRedisChanges == 2    \* times Redis becomes reachable or unreachable in a run
RecoveryJobs == 1       \* add() calls in a run of SpecRecovery
ProbeJobs == 1          \* add() calls in a run of SpecProbe
TransferJobs == 2       \* add() calls in a run of SpecTransfer
CapsJobs == 152         \* add() calls in a run of SpecCaps
PromotionJobs == 1      \* add() calls in a run of SpecPromotion
SwitchJobs == 2         \* add() calls in a run of SpecSwitch
StallJobs == 4          \* add() calls in a run of SpecStall
LateJobs == 2           \* add() calls in a run of SpecLate
AttemptJobs == 2        \* add() calls in a run of SpecAttempt
SoloJobs == 2           \* add() calls in a run of SpecSolo
SoloChanges == 4        \* times Redis becomes reachable or unreachable in a run of SpecSolo
MaxTicks == 2           \* executions of processDelayedJobs that can overlap in a run of SpecPromotion
CapsCompleting == 101   \* jobs of a run of SpecCaps the processor completes (it fails the later ones)
RecoveryChanges == 21   \* times Redis becomes reachable or unreachable in a run of SpecRecovery

\* ------------------------------------------------------ program constants
Concurrency == 3        \* active.length >= 3 / activeCount >= 3
DefaultAttempts == 3    \* job.opts?.attempts || 3
BackoffBase == 1000     \* 1000 * Math.pow(2, attempts)
BackoffCeiling == 30000 \* Math.min(..., 30000)
JobTimeout == 30000     \* rendezvous timeout of processJob
CompletedCap == 100     \* completed.length > 100 -> shift
FailedCap == 50         \* failed.length > 50 -> shift
PromoteBatch == 10      \* zrangebyscore ... 'LIMIT', 0, 10
MAX_RECOVERY_ATTEMPTS == 10

\* opts.attempts as given by the caller (0 stands for "not given": falsy)
AttemptsChoices == {0, 1}
\* opts.delay as given by the caller (0 stands for "not given" or 0)
DelayChoices == {0, 2000}
\* error.message of a failure reported by the processor
ErrChoices == {"smtp"}

VARIABLES
  sut,          \* which component this run exercises: "memory" | "redis" | "coord"
  workload,     \* the callers and the Redis server of this run:
                \* [observe, jobs, changes, ticks, first, rest]
  processingInterval, \* MemoryQueueService: the 1 s interval of startProcessing is set
  \* ---- MemoryQueueService
  mJobs,        \* jobs: Map<id, QueueJob>  (the shared job objects)
  mWaiting,     \* queues.waiting   (sequence of job ids)
  mActive,      \* queues.active
  mDelayed,     \* queues.delayed
  mCompleted,   \* queues.completed
  mFailed,      \* queues.failed
  mCounter,     \* jobIdCounter
  mDelayTimers, \* pending setTimeout(moveFromDelayedToWaiting) : {[id, left]}
  mRetryTimers, \* pending setTimeout(waiting.push(job)) of handleJobFailure
  mPending,     \* pending rendezvous of processJob: {[id, left]} (its timeout)
  procListeners,\* number of 'process' listeners registered on the memory queue
  invoked,      \* per job id: number of processor invocations so far
  lastSignal,   \* the last QueueService.jobCompleted/jobFailed call:
                \* [kind, id, again, by, done], again = the call before had the same id,
                \* by = the invocation of the processor that made the call (0: not
                \* recorded), done = the invocations <<id, k>> that have made their call
  \* ---- RedisQueueService (a job in Redis is the JSON text of the record)
  rWaiting,     \* list 'email:waiting'
  rActive,      \* list 'email:active'
  rDelayed,     \* sorted set 'email:delayed': entries [job, left] by score
  rCompleted,   \* list 'email:completed'
  rFailed,      \* list 'email:failed'
  rCounter,     \* jobIdCounter
  rLoop,        \* position of the processWaitingJobs loop: "llen" | "pop"
  rPending,     \* rendezvous of waitForJobCompletion: [job, left, state, reason]
  rSubs,        \* job ids whose completed/failed channels are subscribed
  rTicks,       \* executions of processDelayedJobs in progress: [todo, pc]
  rPublished,   \* job ids published on 'email:process'
  \* ---- QueueService
  isRedisAvailable, \* this.isRedisAvailable
  recoveryInfo,     \* this.recoveryInfo: [isRedisAvailable, pendingRecovery, recoveryAttempts]
  queue,            \* this.queue: "none" | "memory" | "bull"
  worker,           \* this.worker is set
  probes,           \* executions of checkRedisRecovery: [pc, todo, total]
  bJobs,            \* jobs accepted by the BullMQ queue 'email': [id, attempts, delay]
  bCounter,         \* next job id BullMQ generates
  \* ---- Redis server
  redisUp,          \* Redis answers
  redisWritable,    \* Redis accepts write commands (it is not read-only)
  redisChanges,     \* times redisUp or redisWritable has changed
  \* ---- callers
  addCall,          \* the QueueService.add call awaiting BullMQ: [open, read, attempts, delay,
                    \* late, mem]; late: the call has returned and its queue.add is still
                    \* awaiting Redis; mem: the job it stored in the memory queue (0: none)
  held              \* an array a getter returned to a caller: [taken, ids, seen]

memVars == <<mJobs, mWaiting, mActive, mDelayed, mCompleted, mFailed, mCounter,
             mDelayTimers, mRetryTimers, mPending>>
redisVars == <<rWaiting, rActive, rDelayed, rCompleted, rFailed, rCounter, rLoop,
               rPending, rSubs, rTicks, rPublished>>
obsVars == <<procListeners, invoked, lastSignal>>
coordVars == <<isRedisAvailable, recoveryInfo, queue, worker, probes, bJobs, bCounter,
               redisUp, redisWritable, redisChanges>>
callVars == <<addCall, held>>
vars == <<sut, workload, processingInterval, memVars, redisVars, obsVars, coordVars, callVars>>

\* ---------------------------------------------------------------- helpers
Min(a, b) == IF a < b THEN a ELSE b
Max(a, b) == IF a > b THEN a ELSE b
Range(s) == {s[i] : i \in 1..Len(s)}
Count(s, x) == Cardinality({i \in 1..Len(s) : s[i] = x})

\* Array.prototype.shift(): the array without its first element
Shift(s) == IF Len(s) = 0 THEN s ELSE Tail(s)

\* findIndex(j => j.id === id) followed by splice(index, 1)
RemoveFirst(s, x) ==
  IF \E i \in 1..Len(s) : s[i] = x
  THEN LET k == CHOOSE i \in 1..Len(s) : s[i] = x /\ \A j \in 1..(i-1) : s[j] # x
       IN  SubSeq(s, 1, k-1) \o SubSeq(s, k+1, Len(s))
  ELSE s

\* push followed by "if (length > cap) shift()"
\* a capped push that drops the entry just pushed
PushCappedDropNewest(s, x, cap) ==
  LET t == Append(s, x) IN IF Len(t) > cap THEN SubSeq(t, 1, cap) ELSE t

PushCapped(s, x, cap) ==
  LET t == Append(s, x) IN IF Len(t) > cap THEN Shift(t) ELSE t

\* a default of 5 attempts
MaxAttemptsOfDefaultFive(optAttempts) == IF optAttempts = 0 THEN 5 ELSE optAttempts

\* job.opts?.attempts || 3
MaxAttemptsOf(optAttempts) == IF optAttempts = 0 THEN DefaultAttempts ELSE optAttempts

\* the backoff without its ceiling
RetryDelayNoCeiling(attempts) == BackoffBase * (2 ^ attempts)

\* Math.min(1000 * Math.pow(2, attempts), 30000)
RetryDelay(attempts) == Min(BackoffBase * (2 ^ attempts), BackoffCeiling)

NoSignal == [kind |-> "none", id |-> 0, again |-> FALSE, by |-> 0, done |-> {}]

\* ------------------------------------------------------------------- Init
MemInit ==
  /\ mJobs = <<>>
  /\ mWaiting = <<>> /\ mActive = <<>> /\ mDelayed = <<>>
  /\ mCompleted = <<>> /\ mFailed = <<>>
  /\ mCounter = 1
  /\ mDelayTimers = {} /\ mRetryTimers = {} /\ mPending = {}
  /\ processingInterval = TRUE

ObsInit ==
  /\ procListeners = 1
  /\ invoked = <<>>
  /\ lastSignal = NoSignal

\* ------------------------------------------------------ MemoryQueueService

\* add() that pushes every job onto delayed, whatever its delay
MemAddAlwaysDelayed(optAttempts, delay) ==
  LET id == mCounter
      job == [attempts |-> 0, optAttempts |-> optAttempts, delay |-> delay,
              wait |-> delay, failedReason |-> "none"]
  IN  /\ mCounter' = mCounter + 1
      /\ mJobs' = Append(mJobs, job)
      /\ invoked' = Append(invoked, 0)
      /\ mDelayed' = Append(mDelayed, id)
      /\ mDelayTimers' = mDelayTimers \cup {[id |-> id, left |-> delay]}
      /\ UNCHANGED <<mWaiting, mActive, mCompleted, mFailed, mRetryTimers, mPending>>
      /\ UNCHANGED procListeners

\* add() whose timer is set with a delay of 0 instead of opts.delay
MemAddZeroTimer(optAttempts, delay) ==
  LET id == mCounter
      job == [attempts |-> 0, optAttempts |-> optAttempts, delay |-> delay,
              wait |-> delay, failedReason |-> "none"]
  IN  /\ mCounter' = mCounter + 1
      /\ mJobs' = Append(mJobs, job)
      /\ invoked' = Append(invoked, 0)
      /\ IF delay > 0
         THEN /\ mDelayed' = Append(mDelayed, id)
              /\ mDelayTimers' = mDelayTimers \cup {[id |-> id, left |-> 0]}
              /\ UNCHANGED mWaiting
         ELSE /\ mWaiting' = Append(mWaiting, id)
              /\ UNCHANGED <<mDelayed, mDelayTimers>>
      /\ UNCHANGED <<mActive, mCompleted, mFailed, mRetryTimers, mPending>>
      /\ UNCHANGED procListeners

\* add(jobName, data, opts)
MemAdd(optAttempts, delay) ==
  LET id == mCounter
      job == [attempts |-> 0, optAttempts |-> optAttempts, delay |-> delay,
              wait |-> Max(delay, 0), failedReason |-> "none"]
  IN  /\ mCounter' = mCounter + 1
      /\ mJobs' = Append(mJobs, job)
      /\ invoked' = Append(invoked, 0)
      /\ IF delay > 0
         THEN /\ mDelayed' = Append(mDelayed, id)
              /\ mDelayTimers' = mDelayTimers \cup {[id |-> id, left |-> delay]}
              /\ UNCHANGED mWaiting
         ELSE /\ mWaiting' = Append(mWaiting, id)
              /\ UNCHANGED <<mDelayed, mDelayTimers>>
      /\ UNCHANGED <<mActive, mCompleted, mFailed, mRetryTimers, mPending>>
      /\ UNCHANGED procListeners

\* moveFromDelayedToWaiting(jobId), run by the timer add() has set
MemMoveFromDelayedToWaiting(t) ==
  /\ t \in mDelayTimers
  /\ t.left = 0
  /\ mDelayTimers' = mDelayTimers \ {t}
  /\ IF t.id \in Range(mDelayed)
     THEN /\ mDelayed' = RemoveFirst(mDelayed, t.id)
          /\ mWaiting' = Append(mWaiting, t.id)
     ELSE UNCHANGED <<mDelayed, mWaiting>>
  /\ UNCHANGED <<mJobs, mActive, mCompleted, mFailed, mCounter, mRetryTimers, mPending>>
  /\ UNCHANGED <<procListeners, invoked>>

\* processNextJob() without its concurrency check
MemProcessNextJobNoCeiling ==
  /\ processingInterval
  /\ Len(mWaiting) > 0
  /\ LET id == Head(mWaiting)
     IN  /\ mWaiting' = Shift(mWaiting)
         /\ mActive' = Append(mActive, id)
         /\ invoked' = [invoked EXCEPT ![id] = @ + procListeners]
         /\ mPending' = mPending \cup {[id |-> id, left |-> JobTimeout]}
  /\ UNCHANGED <<mJobs, mDelayed, mCompleted, mFailed, mCounter, mDelayTimers, mRetryTimers>>
  /\ UNCHANGED procListeners

\* processNextJob() that takes the newest job of waiting (pop instead of shift)
MemProcessNextJobLifo ==
  /\ processingInterval
  /\ Len(mWaiting) > 0
  /\ Len(mActive) < Concurrency
  /\ LET id == mWaiting[Len(mWaiting)]
     IN  /\ mWaiting' = SubSeq(mWaiting, 1, Len(mWaiting) - 1)
         /\ mActive' = Append(mActive, id)
         /\ invoked' = [invoked EXCEPT ![id] = @ + procListeners]
         /\ mPending' = mPending \cup {[id |-> id, left |-> JobTimeout]}
  /\ UNCHANGED <<mJobs, mDelayed, mCompleted, mFailed, mCounter, mDelayTimers, mRetryTimers>>
  /\ UNCHANGED procListeners

\* processNextJob(), run by the 1 s interval: up to "await this.processJob(job)"
MemProcessNextJob ==
  /\ processingInterval
  /\ Len(mWaiting) > 0
  /\ Len(mActive) < Concurrency
  /\ LET id == Head(mWaiting)
     IN  /\ mWaiting' = Shift(mWaiting)
         /\ mActive' = Append(mActive, id)
         /\ invoked' = [invoked EXCEPT ![id] = @ + procListeners]
         /\ mPending' = mPending \cup {[id |-> id, left |-> JobTimeout]}
  /\ UNCHANGED <<mJobs, mDelayed, mCompleted, mFailed, mCounter, mDelayTimers, mRetryTimers>>
  /\ UNCHANGED procListeners

\* moveToCompleted() that drops the job instead of pushing it onto completed
MemCompletedAfterDropped(id) == mCompleted

\* moveToCompleted(job): the queues after it
MemCompletedAfter(id) == PushCapped(mCompleted, id, CompletedCap)

\* handleJobFailure() that retries while attempts <= maxAttempts
MemHandleJobFailureOffByOne(id, reason) ==
  LET attempts == mJobs[id].attempts + 1
      maxAttempts == MaxAttemptsOf(mJobs[id].optAttempts)
      retry == attempts <= maxAttempts
      delay == RetryDelay(attempts)
  IN  /\ mJobs' = [mJobs EXCEPT ![id].attempts = attempts, ![id].failedReason = reason]
      /\ mActive' = RemoveFirst(mActive, id)
      /\ IF retry
         THEN /\ mRetryTimers' = mRetryTimers \cup {[id |-> id, left |-> delay]}
              /\ UNCHANGED mFailed
         ELSE /\ mFailed' = PushCapped(mFailed, id, FailedCap)
              /\ UNCHANGED mRetryTimers

\* handleJobFailure(job, error)
MemHandleJobFailure(id, reason) ==
  LET attempts == mJobs[id].attempts + 1
      maxAttempts == MaxAttemptsOf(mJobs[id].optAttempts)
      retry == attempts < maxAttempts
      delay == RetryDelay(attempts)
  IN  /\ mJobs' = [mJobs EXCEPT ![id].attempts = attempts, ![id].failedReason = reason]
      /\ mActive' = RemoveFirst(mActive, id)
      /\ IF retry
         THEN /\ mRetryTimers' = mRetryTimers \cup {[id |-> id, left |-> delay]}
              /\ UNCHANGED mFailed
         ELSE /\ mFailed' = PushCapped(mFailed, id, FailedCap)
              /\ UNCHANGED mRetryTimers

\* the timer of handleJobFailure: this.queues.waiting.push(job)
MemRetry(t) ==
  /\ t \in mRetryTimers
  /\ t.left = 0
  /\ mRetryTimers' = mRetryTimers \ {t}
  /\ mWaiting' = Append(mWaiting, t.id)
  /\ UNCHANGED <<mJobs, mActive, mDelayed, mCompleted, mFailed, mCounter, mDelayTimers, mPending>>
  /\ UNCHANGED <<procListeners, invoked>>

\* the 30 s timer of processJob: reject(new Error('Job timeout')), then the
\* catch branch of processNextJob
MemJobTimeout(p) ==
  /\ p \in mPending
  /\ p.left = 0
  /\ mPending' = mPending \ {p}
  /\ MemHandleJobFailure(p.id, "Job timeout")
  /\ UNCHANGED <<mWaiting, mDelayed, mCompleted, mCounter, mDelayTimers>>
  /\ UNCHANGED <<procListeners, invoked>>

\* jobCompleted(jobId) whose listener outlives its rendezvous: a later emit
\* runs moveToCompleted(job) again
MemJobCompletedStaleListener(id) ==
  /\ mPending' = {p \in mPending : p.id # id}
  /\ mActive' = RemoveFirst(mActive, id)
  /\ mCompleted' = MemCompletedAfter(id)
  /\ UNCHANGED <<mJobs, mWaiting, mDelayed, mFailed, mCounter, mDelayTimers, mRetryTimers>>
  /\ UNCHANGED <<procListeners, invoked>>

\* what a caller reads in the job objects of an array of jobs
JobView(ids) == [i \in 1..Len(ids) |->
                   [attempts |-> mJobs[ids[i]].attempts,
                    failedReason |-> mJobs[ids[i]].failedReason]]

\* getWaiting(), getActive(), getCompleted(), getFailed(), getDelayed():
\* return [...this.queues.x], a new array of the same job objects
MemGetter(q) ==
  /\ held' = [taken |-> TRUE, ids |-> q, seen |-> JobView(q)]
  /\ UNCHANGED <<memVars, procListeners, invoked>>

\* jobCompleted(jobId): emit('jobCompleted', jobId); the onCompleted listener
\* of a pending rendezvous with that id resolves it, and processNextJob
\* continues with moveToCompleted(job)
MemJobCompleted(id) ==
  /\ IF \E p \in mPending : p.id = id
     THEN /\ mPending' = {p \in mPending : p.id # id}
          /\ mActive' = RemoveFirst(mActive, id)
          /\ mCompleted' = MemCompletedAfter(id)
     ELSE UNCHANGED <<mPending, mActive, mCompleted>>
  /\ UNCHANGED <<mJobs, mWaiting, mDelayed, mFailed, mCounter, mDelayTimers, mRetryTimers>>
  /\ UNCHANGED <<procListeners, invoked>>

\* jobFailed(jobId, error): emit('jobFailed', jobId, error); the onFailed
\* listener rejects, and processNextJob continues in its catch branch
MemJobFailed(id, reason) ==
  /\ IF \E p \in mPending : p.id = id
     THEN /\ mPending' = {p \in mPending : p.id # id}
          /\ MemHandleJobFailure(id, reason)
     ELSE UNCHANGED <<mPending, mJobs, mActive, mFailed, mRetryTimers>>
  /\ UNCHANGED <<mWaiting, mDelayed, mCompleted, mCounter, mDelayTimers>>
  /\ UNCHANGED <<procListeners, invoked>>

\* ------------------------------------------------------- RedisQueueService
\* A Redis list is a sequence whose first element is the list's head (left).
LPush(s, x) == <<x>> \o s
\* LTRIM key 0 (cap - 1)
LTrim(s, cap) == SubSeq(s, 1, Min(Len(s), cap))
\* LREM key 1 value
LRem(s, x) == RemoveFirst(s, x)

\* the sorted set 'email:delayed': entries [job, left] in score order (equal
\* scores in the order of the members, which begin with the job id)
ZBefore(e, f) == e.left < f.left \/ (e.left = f.left /\ e.job.id <= f.job.id)
ZRemMember(z, job) ==
  IF \E i \in 1..Len(z) : z[i].job = job
  THEN LET k == CHOOSE i \in 1..Len(z) : z[i].job = job
       IN  SubSeq(z, 1, k-1) \o SubSeq(z, k+1, Len(z))
  ELSE z
\* ZADD key score member (a member already present is moved to its new score)
ZAdd(z, job, left) ==
  LET y == ZRemMember(z, job)
      e == [job |-> job, left |-> left]
      n == Cardinality({i \in 1..Len(y) : ZBefore(y[i], e)})
  IN  SubSeq(y, 1, n) \o <<e>> \o SubSeq(y, n+1, Len(y))
\* ZRANGEBYSCORE key -inf now LIMIT 0 10
ZDue(z) ==
  LET n == Cardinality({i \in 1..Len(z) : z[i].left = 0})
  IN  [i \in 1..Min(n, PromoteBatch) |-> z[i].job]

RedisInit ==
  /\ rWaiting = <<>> /\ rActive = <<>> /\ rDelayed = <<>>
  /\ rCompleted = <<>> /\ rFailed = <<>>
  /\ rCounter = 1
  /\ rLoop = "llen"
  /\ rPending = <<>>
  /\ rSubs = {}
  /\ rTicks = <<>>
  /\ rPublished = {}

\* add(jobName, data, opts)
RedisAdd(optAttempts, delay) ==
  LET job == [id |-> rCounter, attempts |-> 0, optAttempts |-> optAttempts,
              delay |-> delay, wait |-> Max(delay, 0), failedReason |-> "absent"]
  IN  /\ rCounter' = rCounter + 1
      /\ IF delay > 0
         THEN /\ rDelayed' = ZAdd(rDelayed, job, delay)
              /\ UNCHANGED rWaiting
         ELSE /\ rWaiting' = LPush(rWaiting, job)
              /\ UNCHANGED rDelayed
      /\ UNCHANGED <<rActive, rCompleted, rFailed, rLoop, rPending, rSubs, rTicks, rPublished>>

\* processDelayedJobs(), run by the 5 s interval: the zrangebyscore.  At most
\* workload.ticks runs of it are in progress at a time (1: a run has ended when
\* the interval fires again).
RedisProcessDelayedJobs ==
  /\ Len(rTicks) < workload.ticks
  /\ ZDue(rDelayed) # <<>>
  /\ rTicks' = Append(rTicks, [todo |-> ZDue(rDelayed), pc |-> "lpush"])
  /\ UNCHANGED <<rWaiting, rActive, rDelayed, rCompleted, rFailed, rCounter, rLoop,
                 rPending, rSubs, rPublished>>

\* ... its loop body: await this.redis.lpush('email:waiting', jobStr)
RedisPromoteLpush(k) ==
  /\ k \in 1..Len(rTicks)
  /\ rTicks[k].pc = "lpush"
  /\ rWaiting' = LPush(rWaiting, Head(rTicks[k].todo))
  /\ rTicks' = [rTicks EXCEPT ![k].pc = "zrem"]
  /\ UNCHANGED <<rActive, rDelayed, rCompleted, rFailed, rCounter, rLoop, rPending,
                 rSubs, rPublished>>

\* ... await this.redis.zrem('email:delayed', jobStr), and the next iteration
RedisPromoteZrem(k) ==
  /\ k \in 1..Len(rTicks)
  /\ rTicks[k].pc = "zrem"
  /\ rDelayed' = ZRemMember(rDelayed, Head(rTicks[k].todo))
  /\ rTicks' = IF Len(rTicks[k].todo) = 1
               THEN SubSeq(rTicks, 1, k-1) \o SubSeq(rTicks, k+1, Len(rTicks))
               ELSE [rTicks EXCEPT ![k] = [todo |-> Tail(@.todo), pc |-> "lpush"]]
  /\ UNCHANGED <<rWaiting, rActive, rCompleted, rFailed, rCounter, rLoop, rPending,
                 rSubs, rPublished>>

\* processWaitingJobs(): const activeCount = await this.redis.llen(...); a
\* count of 3 or more sleeps 1 s and reads again
RedisLoopLlen ==
  /\ rLoop = "llen"
  /\ Len(rActive) < Concurrency
  /\ rLoop' = "pop"
  /\ UNCHANGED <<rWaiting, rActive, rDelayed, rCompleted, rFailed, rCounter,
                 rPending, rSubs, rTicks, rPublished>>

\* processWaitingJobs(): brpoplpush('email:waiting', 'email:active', 5), then
\* processJob(job) up to its wait in waitForJobCompletion
RedisLoopPop ==
  /\ rLoop = "pop"
  /\ rLoop' = "llen"
  /\ IF rWaiting = <<>>
     THEN UNCHANGED <<rWaiting, rActive, rPending, rSubs, rPublished>>
     ELSE LET job == rWaiting[Len(rWaiting)]
          IN  /\ rWaiting' = SubSeq(rWaiting, 1, Len(rWaiting) - 1)
              /\ rActive' = LPush(rActive, job)
              /\ rPublished' = rPublished \cup {job.id}
              /\ rPending' = Append(rPending,
                    [job |-> job, left |-> JobTimeout, state |-> "wait", reason |-> "none"])
              /\ rSubs' = rSubs \cup {job.id}
  /\ UNCHANGED <<rDelayed, rCompleted, rFailed, rCounter, rTicks>>

\* the 'message' listeners of waitForJobCompletion, for a message on one of the
\* channels of job id: every rendezvous of that id that is still waiting settles
RedisSettle(id, state, reason) ==
  [i \in 1..Len(rPending) |->
     IF rPending[i].job.id = id /\ rPending[i].state = "wait"
     THEN [rPending[i] EXCEPT !.state = state, !.reason = reason]
     ELSE rPending[i]]

\* jobCompleted(jobId): publish on 'email:job:<id>:completed'
RedisJobCompleted(id) ==
  /\ IF id \in rSubs
     THEN /\ rPending' = RedisSettle(id, "ok", "none")
          /\ rSubs' = rSubs \ {id}
     ELSE UNCHANGED <<rPending, rSubs>>
  /\ UNCHANGED <<rWaiting, rActive, rDelayed, rCompleted, rFailed, rCounter, rLoop,
                 rTicks, rPublished>>

\* jobFailed(jobId, error): publish on 'email:job:<id>:failed'
RedisJobFailed(id, reason) ==
  /\ IF id \in rSubs
     THEN /\ rPending' = RedisSettle(id, "fail", reason)
          /\ rSubs' = rSubs \ {id}
     ELSE UNCHANGED <<rPending, rSubs>>
  /\ UNCHANGED <<rWaiting, rActive, rDelayed, rCompleted, rFailed, rCounter, rLoop,
                 rTicks, rPublished>>

\* the 30 s timer of waitForJobCompletion
RedisJobTimeout(i) ==
  /\ i \in 1..Len(rPending)
  /\ rPending[i].state = "wait"
  /\ rPending[i].left = 0
  /\ rPending' = [rPending EXCEPT ![i].state = "fail", ![i].reason = "Job timeout"]
  /\ rSubs' = rSubs \ {rPending[i].job.id}
  /\ UNCHANGED <<rWaiting, rActive, rDelayed, rCompleted, rFailed, rCounter, rLoop,
                 rTicks, rPublished>>

DropAt(s, i) == SubSeq(s, 1, i-1) \o SubSeq(s, i+1, Len(s))

\* moveJobToCompleted(job), the continuation of processJob after a completion
RedisMoveJobToCompleted(i) ==
  /\ i \in 1..Len(rPending)
  /\ rPending[i].state = "ok"
  /\ LET job == rPending[i].job
     IN  /\ rActive' = LRem(rActive, job)
         /\ rCompleted' = LTrim(LPush(rCompleted, job), CompletedCap)
  /\ rPending' = DropAt(rPending, i)
  /\ UNCHANGED <<rWaiting, rDelayed, rFailed, rCounter, rLoop, rSubs, rTicks, rPublished>>

\* handleJobFailure(job, error), the catch branch of processJob
RedisHandleJobFailure(i) ==
  /\ i \in 1..Len(rPending)
  /\ rPending[i].state = "fail"
  /\ LET old == rPending[i].job
         job == [old EXCEPT !.attempts = @ + 1, !.failedReason = rPending[i].reason]
         maxAttempts == MaxAttemptsOf(job.optAttempts)
         \* JSON.stringify({...job, attempts: job.attempts - 1})
         key == [job EXCEPT !.attempts = @ - 1]
     IN  /\ rActive' = LRem(rActive, key)
         /\ IF job.attempts < maxAttempts
            THEN /\ rDelayed' = ZAdd(rDelayed, job, RetryDelay(job.attempts))
                 /\ UNCHANGED rFailed
            ELSE /\ rFailed' = LTrim(LPush(rFailed, job), FailedCap)
                 /\ UNCHANGED rDelayed
  /\ rPending' = DropAt(rPending, i)
  /\ UNCHANGED <<rWaiting, rCompleted, rCounter, rLoop, rSubs, rTicks, rPublished>>

\* ------------------------------------------------------------------ clock
\* timers that fire when due
TimerLefts ==
  {t.left : t \in mDelayTimers \cup mRetryTimers \cup mPending}
    \cup {rPending[i].left : i \in {j \in 1..Len(rPending) : rPending[j].state = "wait"}}
\* due times that are polled
ScoreLefts == {rDelayed[i].left : i \in 1..Len(rDelayed)} \ {0}

Lefts == TimerLefts \cup ScoreLefts

Elapse(t, dt) == [t EXCEPT !.left = Max(@ - dt, 0)]
Age(job, dt) == [job EXCEPT !.wait = Max(@ - dt, 0)]
AgeSeq(s, dt) == [i \in 1..Len(s) |-> Age(s[i], dt)]
AgeEntries(s, dt) == [i \in 1..Len(s) |-> Elapse([s[i] EXCEPT !.job = Age(@, dt)], dt)]

\* the clock moves on to the next due time; no timer that is due is skipped
Advance ==
  /\ Lefts # {}
  /\ \A l \in TimerLefts : l > 0
  /\ LET dt == CHOOSE d \in Lefts : \A e \in Lefts : d <= e
     IN  /\ mDelayTimers' = {Elapse(t, dt) : t \in mDelayTimers}
         /\ mRetryTimers' = {Elapse(t, dt) : t \in mRetryTimers}
         /\ mPending' = {Elapse(t, dt) : t \in mPending}
         /\ mJobs' = AgeSeq(mJobs, dt)
         /\ rWaiting' = AgeSeq(rWaiting, dt)
         /\ rActive' = AgeSeq(rActive, dt)
         /\ rCompleted' = AgeSeq(rCompleted, dt)
         /\ rFailed' = AgeSeq(rFailed, dt)
         /\ rDelayed' = AgeEntries(rDelayed, dt)
         /\ rPending' = AgeEntries(rPending, dt)
         /\ rTicks' = [k \in 1..Len(rTicks) |->
                         [rTicks[k] EXCEPT !.todo = AgeSeq(@, dt)]]
  /\ UNCHANGED <<mWaiting, mActive, mDelayed, mCompleted, mFailed, mCounter>>
  /\ UNCHANGED <<rCounter, rLoop, rSubs, rPublished>>
  /\ UNCHANGED <<sut, workload, processingInterval, obsVars, coordVars, callVars>>

\* ------------------------------------------------------------ QueueService
NoSnapshot == [taken |-> FALSE, ids |-> <<>>, seen |-> <<>>]
NoCall == [open |-> FALSE, read |-> FALSE, attempts |-> 0, delay |-> 0,
           late |-> FALSE, mem |-> 0]
IdleProbe == [pc |-> "idle", todo |-> <<>>, total |-> 0]

\* after onModuleInit() with Redis unreachable: initializeMemoryQueue(), and
\* the processor registered by process()
CoordInit ==
  /\ isRedisAvailable = FALSE
  /\ recoveryInfo = [isRedisAvailable |-> FALSE, pendingRecovery |-> FALSE,
                     recoveryAttempts |-> 0]
  /\ queue = "memory"
  /\ worker = FALSE
  /\ probes = [p \in 1..MaxProbes |-> IdleProbe]
  /\ bJobs = {}
  /\ bCounter = 1
  /\ redisUp = FALSE
  /\ redisWritable = TRUE
  /\ redisChanges = 0
  /\ addCall = NoCall
  /\ held = NoSnapshot

\* after onModuleInit() with Redis reachable: initializeRedisQueue() succeeded
\* and initializeQueue() set this.isRedisAvailable
CoordInitRedis ==
  /\ isRedisAvailable = TRUE
  /\ recoveryInfo = [isRedisAvailable |-> FALSE, pendingRecovery |-> FALSE,
                     recoveryAttempts |-> 0]
  /\ queue = "bull"
  /\ worker = TRUE
  /\ probes = [p \in 1..MaxProbes |-> IdleProbe]
  /\ bJobs = {}
  /\ bCounter = 1
  /\ redisUp = TRUE
  /\ redisWritable = TRUE
  /\ redisChanges = 0
  /\ addCall = NoCall
  /\ held = NoSnapshot

\* process() called while isRedisAvailable && worker: no 'process' listener is
\* registered on the memory queue
ObsInitRedis ==
  /\ procListeners = 0
  /\ invoked = <<>>
  /\ lastSignal = NoSignal

\* Redis becomes reachable or unreachable
RedisChange ==
  /\ redisChanges < workload.changes
  /\ redisUp' = ~redisUp
  /\ redisChanges' = redisChanges + 1
  /\ UNCHANGED <<isRedisAvailable, recoveryInfo, queue, worker, probes, bJobs, bCounter,
                 redisWritable>>

\* Redis becomes read-only (it answers PING and rejects writes) or writable again
RedisWriteChange ==
  /\ redisChanges < workload.changes
  /\ redisWritable' = ~redisWritable
  /\ redisChanges' = redisChanges + 1
  /\ UNCHANGED <<isRedisAvailable, recoveryInfo, queue, worker, probes, bJobs, bCounter,
                 redisUp>>

\* BullMQ Queue.add with a custom jobId: an id the queue already holds adds nothing
BullAdd(jobs, j) == IF \E b \in jobs : b.id = j.id THEN jobs ELSE jobs \cup {j}

\* the options of a transfer that passes a delayed job's opts.delay on unchanged
TransferJobOriginalDelay(e) ==
  LET job == mJobs[e.id]
      attempts == MaxAttemptsOf(job.optAttempts)
  IN  CASE e.from = "waiting" ->
             [id |-> <<e.id, "">>, attempts |-> attempts, delay |-> 0]
        [] e.from = "active" ->
             [id |-> <<e.id, "-recovered">>,
              attempts |-> Max(attempts - job.attempts, 1), delay |-> 1000]
        [] e.from = "delayed" ->
             [id |-> <<e.id, "-delayed">>, attempts |-> attempts, delay |-> job.delay]

\* the options performRecovery() passes to queue.add for a job of its snapshot
TransferJob(e) ==
  LET job == mJobs[e.id]
      attempts == MaxAttemptsOf(job.optAttempts)
  IN  CASE e.from = "waiting" ->
             [id |-> <<e.id, "">>, attempts |-> attempts, delay |-> 0]
        [] e.from = "active" ->
             [id |-> <<e.id, "-recovered">>,
              attempts |-> Max(attempts - job.attempts, 1), delay |-> 1000]
        [] e.from = "delayed" ->
             [id |-> <<e.id, "-delayed">>, attempts |-> attempts, delay |-> job.wait]

\* getWaiting(), getActive(), getDelayed() as performRecovery() walks them
Snapshot ==
  [i \in 1..Len(mWaiting) |-> [id |-> mWaiting[i], from |-> "waiting"]]
    \o [i \in 1..Len(mActive) |-> [id |-> mActive[i], from |-> "active"]]
    \o [i \in 1..Len(mDelayed) |-> [id |-> mDelayed[i], from |-> "delayed"]]

\* checkRedisRecovery() that looks at pendingRecovery only
CheckRedisRecoveryNoFlagGuard(p) ==
  /\ probes[p].pc = "idle"
  /\ ~recoveryInfo.pendingRecovery
  /\ probes' = [probes EXCEPT ![p].pc = "testing"]
  /\ UNCHANGED <<isRedisAvailable, recoveryInfo, queue, worker, bJobs, bCounter,
                 redisUp, redisWritable, redisChanges>>

\* checkRedisRecovery() up to "await this.testRedisConnection(redisUrl)"
CheckRedisRecovery(p) ==
  /\ probes[p].pc = "idle"
  /\ ~(isRedisAvailable \/ recoveryInfo.pendingRecovery)
  /\ probes' = [probes EXCEPT ![p].pc = "testing"]
  /\ UNCHANGED <<isRedisAvailable, recoveryInfo, queue, worker, bJobs, bCounter,
                 redisUp, redisWritable, redisChanges>>

\* performRecovery() entered without looking at pendingRecovery
PerformRecoveryNoGuard(p) ==
  /\ recoveryInfo' = [recoveryInfo EXCEPT !.pendingRecovery = TRUE,
                                          !.recoveryAttempts = @ + 1]
  /\ probes' = [probes EXCEPT ![p] =
                  [pc |-> IF Snapshot = <<>> THEN "switch" ELSE "init",
                   todo |-> Snapshot, total |-> Len(Snapshot)]]

\* performRecovery() up to its first await on Redis: the guard, the flags
\* and the snapshot of the memory queue
PerformRecovery(p) ==
  IF recoveryInfo.pendingRecovery
  THEN /\ probes' = [probes EXCEPT ![p] = IdleProbe]
       /\ UNCHANGED recoveryInfo
  ELSE /\ recoveryInfo' = [recoveryInfo EXCEPT !.pendingRecovery = TRUE,
                                               !.recoveryAttempts = @ + 1]
       /\ probes' = [probes EXCEPT ![p] =
                       [pc |-> IF Snapshot = <<>> THEN "switch" ELSE "init",
                        todo |-> Snapshot, total |-> Len(Snapshot)]]

\* checkRedisRecovery() that starts a recovery whatever recoveryAttempts is
TestRedisConnectionNoBound(p) ==
  /\ probes[p].pc = "testing"
  /\ IF redisUp
     THEN PerformRecovery(p)
     ELSE /\ probes' = [probes EXCEPT ![p] = IdleProbe]
          /\ UNCHANGED recoveryInfo
  /\ UNCHANGED <<isRedisAvailable, queue, worker, bJobs, bCounter, redisUp, redisWritable, redisChanges>>

\* checkRedisRecovery() from the answer of testRedisConnection() on
TestRedisConnection(p) ==
  /\ probes[p].pc = "testing"
  /\ IF redisUp /\ recoveryInfo.recoveryAttempts < MAX_RECOVERY_ATTEMPTS
     THEN PerformRecovery(p)
     ELSE /\ probes' = [probes EXCEPT ![p] = IdleProbe]
          /\ UNCHANGED recoveryInfo
  /\ UNCHANGED <<isRedisAvailable, queue, worker, bJobs, bCounter, redisUp, redisWritable, redisChanges>>

\* performRecovery() whose catch block leaves the queue it created in place
InitializeRedisQueueNoCleanup(p) ==
  /\ probes[p].pc \in {"init", "switch"}
  /\ IF redisUp
     THEN /\ queue' = "bull"
          /\ worker' = TRUE
          /\ IF probes[p].pc = "switch"
             THEN /\ isRedisAvailable' = TRUE
                  /\ recoveryInfo' = [recoveryInfo EXCEPT !.isRedisAvailable = TRUE,
                                                          !.pendingRecovery = FALSE]
                  /\ probes' = [probes EXCEPT ![p] = IdleProbe]
             ELSE /\ probes' = [probes EXCEPT ![p].pc = "transfer"]
                  /\ UNCHANGED <<isRedisAvailable, recoveryInfo>>
     ELSE /\ isRedisAvailable' = FALSE
          /\ recoveryInfo' = [recoveryInfo EXCEPT !.isRedisAvailable = FALSE,
                                                  !.pendingRecovery = FALSE]
          /\ worker' = FALSE
          /\ queue' = "bull"
          /\ probes' = [probes EXCEPT ![p] = IdleProbe]
  /\ UNCHANGED <<bJobs, bCounter, redisUp, redisWritable, redisChanges>>

\* performRecovery(): initializeRedisQueue() (directly or in switchToRedis())
\* and what follows it: the flip when there is nothing to transfer, the
\* catch and finally blocks when the connection fails
InitializeRedisQueue(p) ==
  /\ probes[p].pc \in {"init", "switch"}
  /\ IF redisUp
     THEN /\ queue' = "bull"
          /\ worker' = TRUE
          /\ IF probes[p].pc = "switch"
             THEN /\ isRedisAvailable' = TRUE
                  /\ recoveryInfo' = [recoveryInfo EXCEPT !.isRedisAvailable = TRUE,
                                                          !.pendingRecovery = FALSE]
                  /\ probes' = [probes EXCEPT ![p] = IdleProbe]
             ELSE /\ probes' = [probes EXCEPT ![p].pc = "transfer"]
                  /\ UNCHANGED <<isRedisAvailable, recoveryInfo>>
     ELSE /\ isRedisAvailable' = FALSE
          /\ recoveryInfo' = [recoveryInfo EXCEPT !.isRedisAvailable = FALSE,
                                                  !.pendingRecovery = FALSE]
          /\ worker' = FALSE
          /\ queue' = "none"
          /\ probes' = [probes EXCEPT ![p] = IdleProbe]
  /\ UNCHANGED <<bJobs, bCounter, redisUp, redisWritable, redisChanges>>

\* "await this.queue.add(job.name, job.data, opts)" of performRecovery() for the
\* options j: this.queue is the BullMQ queue (a rejected add is caught and
\* logged), or the memory queue when fallbackToMemoryQueue() has run since
\* initializeRedisQueue(), or null (the TypeError is caught and logged)
TransferAdd(j) ==
  CASE queue = "bull" ->
         /\ bJobs' = IF redisUp /\ redisWritable THEN BullAdd(bJobs, j) ELSE bJobs
         /\ UNCHANGED <<memVars, procListeners, invoked>>
    [] queue = "memory" ->
         /\ MemAdd(j.attempts, j.delay)
         /\ UNCHANGED bJobs
    [] OTHER -> UNCHANGED <<bJobs, memVars, procListeners, invoked>>

\* performRecovery() that flips to Redis after the first submission
TransferNextEarlyFlip(p) ==
  /\ probes[p].pc = "transfer"
  /\ LET e == Head(probes[p].todo)
     IN  /\ TransferAdd(TransferJob(e))
         /\ isRedisAvailable' = TRUE
         /\ recoveryInfo' = [recoveryInfo EXCEPT !.isRedisAvailable = TRUE,
                                                 !.pendingRecovery = FALSE]
         /\ probes' = [probes EXCEPT ![p] = IdleProbe]
  /\ UNCHANGED <<queue, worker, bCounter, redisUp, redisWritable, redisChanges>>

\* performRecovery(): one "await this.queue.add(...)" of the transfer loops (a
\* rejected add is caught and logged); after the last one the flip and the
\* finally block
TransferNext(p) ==
  /\ probes[p].pc = "transfer"
  /\ LET e == Head(probes[p].todo)
         rest == Tail(probes[p].todo)
     IN  /\ TransferAdd(TransferJob(e))
         /\ IF rest = <<>>
            THEN /\ isRedisAvailable' = TRUE
                 /\ recoveryInfo' = [recoveryInfo EXCEPT !.isRedisAvailable = TRUE,
                                                         !.pendingRecovery = FALSE]
                 /\ probes' = [probes EXCEPT ![p] = IdleProbe]
            ELSE /\ probes' = [probes EXCEPT ![p].todo = rest]
                 /\ UNCHANGED <<isRedisAvailable, recoveryInfo>>
  /\ UNCHANGED <<queue, worker, bCounter, redisUp, redisWritable, redisChanges>>

\* add(): this.isRedisAvailable && this.queue is false -> memoryQueueService.add
QAddMemory(optAttempts, delay) ==
  /\ ~addCall.open
  /\ ~(isRedisAvailable /\ queue # "none")
  /\ MemAdd(optAttempts, delay)
  /\ UNCHANGED <<coordVars, callVars>>

\* add(): this.isRedisAvailable && this.queue is true -> queue.add of BullMQ is
\* called and raced against the 3 s timeout (one caller at a time)
QAddStart(optAttempts, delay) ==
  /\ ~addCall.open
  /\ isRedisAvailable /\ queue # "none"
  /\ addCall' = [open |-> TRUE, read |-> isRedisAvailable,
                 attempts |-> optAttempts, delay |-> delay, late |-> FALSE, mem |-> 0]
  /\ UNCHANGED coordVars

\* add(): queue.add of BullMQ answers within 3 s
QAddBull ==
  /\ addCall.open
  /\ redisUp /\ redisWritable /\ queue = "bull"
  /\ bJobs' = bJobs \cup {[id |-> <<bCounter, "bull">>,
                           attempts |-> MaxAttemptsOf(addCall.attempts),
                           delay |-> addCall.delay]}
  /\ bCounter' = bCounter + 1
  /\ addCall' = NoCall
  /\ UNCHANGED <<isRedisAvailable, recoveryInfo, queue, worker, probes, redisUp, redisWritable, redisChanges>>

\* add(): queue.add rejects or the 3 s timeout wins; the catch block reads
\* this.isRedisAvailable: true -> memoryQueueService.add, false -> throw error
QAddFallback ==
  /\ addCall.open
  /\ ~redisUp \/ ~redisWritable \/ queue # "bull"
  /\ IF isRedisAvailable
     THEN MemAdd(addCall.attempts, addCall.delay)
     ELSE UNCHANGED <<memVars, procListeners, invoked>>
  /\ addCall' = NoCall
  /\ UNCHANGED coordVars

\* add(): the 3 s timeout wins the race while queue.add of BullMQ is still
\* awaiting Redis (its commands time out after 20 s); the catch block reads
\* this.isRedisAvailable: true -> memoryQueueService.add, false -> throw error.
\* Promise.race leaves the losing queue.add pending.
QAddTimeout ==
  /\ addCall.open
  /\ queue = "bull"
  /\ IF isRedisAvailable
     THEN MemAdd(addCall.attempts, addCall.delay)
     ELSE UNCHANGED <<memVars, procListeners, invoked>>
  /\ addCall' = [addCall EXCEPT !.open = FALSE, !.late = TRUE,
                                !.mem = IF isRedisAvailable THEN mCounter ELSE 0]
  /\ UNCHANGED coordVars

\* the queue.add of BullMQ a call has abandoned is answered by Redis after all
QAddLate ==
  /\ addCall.late
  /\ redisUp /\ redisWritable /\ queue = "bull"
  /\ bJobs' = bJobs \cup {[id |-> <<bCounter, "bull">>,
                           attempts |-> MaxAttemptsOf(addCall.attempts),
                           delay |-> addCall.delay]}
  /\ bCounter' = bCounter + 1
  /\ addCall' = NoCall
  /\ UNCHANGED <<isRedisAvailable, recoveryInfo, queue, worker, probes, redisUp, redisWritable, redisChanges>>

\* the queue.add of BullMQ a call has abandoned is rejected in the end
QAddLateRejected ==
  /\ addCall.late
  /\ addCall' = NoCall
  /\ UNCHANGED coordVars

\* the record of a jobCompleted/jobFailed call, kept in runs that observe them
Observe(kind, id) ==
  IF workload.observe
  THEN [kind |-> kind, id |-> id, again |-> lastSignal.id = id, by |-> 0,
        done |-> lastSignal.done]
  ELSE lastSignal

\* jobCompleted(jobId)
QJobCompleted(id) ==
  /\ lastSignal' = Observe("completed", id)
  /\ IF ~isRedisAvailable
     THEN MemJobCompleted(id)
     ELSE UNCHANGED <<memVars, procListeners, invoked>>

\* jobFailed(jobId, error)
QJobFailed(id, reason) ==
  /\ lastSignal' = Observe("failed", id)
  /\ IF ~isRedisAvailable
     THEN MemJobFailed(id, reason)
     ELSE UNCHANGED <<memVars, procListeners, invoked>>

\* jobs accepted so far by the memory queue and by the BullMQ queue through add()
Added == (mCounter - 1) + (bCounter - 1)

\* fallbackToMemoryQueue(), run 2 s after the third connection error of the
\* worker.  When it runs in the middle of a transfer, the rest of the snapshot
\* is submitted to the memory queue again: the run's bound on jobs covers
\* those copies.
FallbackToMemoryQueue ==
  /\ worker /\ ~redisUp
  /\ \A p \in 1..MaxProbes :
       probes[p].pc = "transfer" => Added + Len(probes[p].todo) <= workload.jobs
  /\ worker' = FALSE
  /\ queue' = "memory"
  /\ isRedisAvailable' = FALSE
  /\ procListeners' = procListeners + 1
  /\ UNCHANGED <<recoveryInfo, probes, bJobs, bCounter, redisUp, redisWritable, redisChanges>>
  /\ UNCHANGED <<invoked, lastSignal>>

\* jobCompleted(job.id) called by the k-th invocation of the processor for job
\* id; an invocation calls jobCompleted or jobFailed once, when it is done
QJobCompletedBy(id, k) ==
  /\ k \in 1..invoked[id]
  /\ <<id, k>> \notin lastSignal.done
  /\ lastSignal' = [kind |-> "completed", id |-> id, again |-> lastSignal.id = id, by |-> k,
                    done |-> lastSignal.done \cup {<<id, k>>}]
  /\ IF ~isRedisAvailable
     THEN MemJobCompleted(id)
     ELSE UNCHANGED <<memVars, procListeners, invoked>>

\* jobFailed(job.id, error) called by the k-th invocation of the processor for job id
QJobFailedBy(id, k, reason) ==
  /\ k \in 1..invoked[id]
  /\ <<id, k>> \notin lastSignal.done
  /\ lastSignal' = [kind |-> "failed", id |-> id, again |-> lastSignal.id = id, by |-> k,
                    done |-> lastSignal.done \cup {<<id, k>>}]
  /\ IF ~isRedisAvailable
     THEN MemJobFailed(id, reason)
     ELSE UNCHANGED <<memVars, procListeners, invoked>>

\* ------------------------------------------------------------ environment
\* the processor (a caller of jobCompleted/jobFailed) signals for a job it was
\* invoked with
Signalled(id) == id \in 1..Len(invoked) /\ invoked[id] > 0

\* the options of the k-th add() of a run
Opts(k) == IF k = 1 THEN workload.first ELSE workload.rest

MemFrame == UNCHANGED <<sut, workload, processingInterval, redisVars, lastSignal, coordVars, callVars>>
RedisFrame == UNCHANGED <<sut, workload, processingInterval, memVars, obsVars, coordVars, callVars>>

\* one backend with its callers: add(), the backend's timers and loops, and
\* the processor's signals
Next ==
  \/ \E o \in Opts(mCounter) :
       /\ sut = "memory" /\ mCounter <= workload.jobs
       /\ MemAdd(o.attempts, o.delay) /\ MemFrame
  \/ \E t \in mDelayTimers : MemMoveFromDelayedToWaiting(t) /\ MemFrame
  \/ MemProcessNextJob /\ MemFrame
  \/ \E t \in mRetryTimers : MemRetry(t) /\ MemFrame
  \/ \E p \in mPending : MemJobTimeout(p) /\ MemFrame
  \/ \E id \in 1..Len(invoked) : Signalled(id) /\ MemJobCompleted(id) /\ MemFrame
  \/ \E id \in 1..Len(invoked), e \in ErrChoices :
       Signalled(id) /\ MemJobFailed(id, e) /\ MemFrame
  \/ \E o \in Opts(rCounter) :
       /\ sut = "redis" /\ rCounter <= workload.jobs
       /\ RedisAdd(o.attempts, o.delay) /\ RedisFrame
  \/ RedisProcessDelayedJobs /\ RedisFrame
  \/ \E k \in 1..Len(rTicks) : RedisPromoteLpush(k) /\ RedisFrame
  \/ \E k \in 1..Len(rTicks) : RedisPromoteZrem(k) /\ RedisFrame
  \/ sut = "redis" /\ RedisLoopLlen /\ RedisFrame
  \/ sut = "redis" /\ RedisLoopPop /\ RedisFrame
  \/ \E id \in rPublished : RedisJobCompleted(id) /\ RedisFrame
  \/ \E id \in rPublished, e \in ErrChoices : RedisJobFailed(id, e) /\ RedisFrame
  \/ \E i \in 1..Len(rPending) : RedisJobTimeout(i) /\ RedisFrame
  \/ \E i \in 1..Len(rPending) : RedisMoveJobToCompleted(i) /\ RedisFrame
  \/ \E i \in 1..Len(rPending) : RedisHandleJobFailure(i) /\ RedisFrame
  \/ Advance

AllOpts == [attempts : AttemptsChoices, delay : DelayChoices]
NoDelayOpts == [attempts : AttemptsChoices, delay : {0}]

BackendInit ==
  /\ sut \in {"memory", "redis"}
  /\ MemInit
  /\ RedisInit
  /\ ObsInit
  /\ CoordInit

\* ---------------------------------------------------------- specifications
\* Spec: one backend, few jobs; the first with every option, the others with
\* every retry option and no delay
Init ==
  /\ BackendInit
  /\ workload = [observe |-> FALSE, jobs |-> MaxJobs, changes |-> MaxRedisChanges, ticks |-> 1,
                 first |-> AllOpts, rest |-> NoDelayOpts]

Spec == Init /\ [][Next]_vars

\* SpecLoad: one backend, more jobs than the concurrency ceiling; the first is
\* delayed and retried once, the others are immediate and fail for good
InitLoad ==
  /\ BackendInit
  /\ workload = [observe |-> FALSE, jobs |-> LoadJobs, changes |-> MaxRedisChanges, ticks |-> 1,
                 first |-> {[attempts |-> 2, delay |-> 2000]},
                 rest |-> {[attempts |-> 1, delay |-> 0]}]

SpecLoad == InitLoad /\ [][Next]_vars

\* SpecBackoff: one backend, jobs that are retried up to the backoff ceiling
InitBackoff ==
  /\ BackendInit
  /\ workload = [observe |-> FALSE, jobs |-> BackoffJobs, changes |-> MaxRedisChanges, ticks |-> 1,
                 first |-> [attempts : {6}, delay : DelayChoices],
                 rest |-> [attempts : {6}, delay : DelayChoices]]

SpecBackoff == InitBackoff /\ [][Next]_vars

\* SpecBadInput: one backend, callers that also pass a negative opts.delay
InitBadInput ==
  /\ BackendInit
  /\ workload = [observe |-> FALSE, jobs |-> BadInputJobs, changes |-> MaxRedisChanges, ticks |-> 1,
                 first |-> [attempts : AttemptsChoices, delay : {-1, 2000}],
                 rest |-> {[attempts |-> 1, delay |-> -1]}]

SpecBadInput == InitBadInput /\ [][Next]_vars

\* the coordinator with the memory queue, its callers, the processor and Redis
CoordFrame == UNCHANGED <<sut, workload, processingInterval, memVars, redisVars, obsVars, callVars>>
TransferFrame == UNCHANGED <<sut, workload, processingInterval, redisVars, lastSignal, callVars>>

NextCoord ==
  \/ \E o \in Opts(Added + 1) :
       /\ Added < workload.jobs
       /\ QAddMemory(o.attempts, o.delay) /\ UNCHANGED <<sut, workload, processingInterval, redisVars, lastSignal>>
  \/ \E o \in Opts(Added + 1) :
       /\ Added < workload.jobs
       /\ QAddStart(o.attempts, o.delay)
       /\ UNCHANGED <<sut, workload, processingInterval, memVars, redisVars, obsVars, held>>
  \/ QAddBull /\ UNCHANGED <<sut, workload, processingInterval, memVars, redisVars, obsVars, held>>
  \/ QAddFallback /\ UNCHANGED <<sut, workload, processingInterval, redisVars, lastSignal, held>>
  \/ \E t \in mDelayTimers : MemMoveFromDelayedToWaiting(t) /\ MemFrame
  \/ MemProcessNextJob /\ MemFrame
  \/ \E t \in mRetryTimers : MemRetry(t) /\ MemFrame
  \/ \E p \in mPending : MemJobTimeout(p) /\ MemFrame
  \/ \E id \in 1..Len(invoked) :
       Signalled(id) /\ QJobCompleted(id) /\ UNCHANGED <<sut, workload, processingInterval, redisVars, coordVars, callVars>>
  \/ \E id \in 1..Len(invoked), e \in ErrChoices :
       Signalled(id) /\ QJobFailed(id, e) /\ UNCHANGED <<sut, workload, processingInterval, redisVars, coordVars, callVars>>
  \/ RedisChange /\ CoordFrame
  \/ \E p \in 1..MaxProbes : CheckRedisRecovery(p) /\ CoordFrame
  \/ \E p \in 1..MaxProbes : TestRedisConnection(p) /\ CoordFrame
  \/ \E p \in 1..MaxProbes : InitializeRedisQueue(p) /\ CoordFrame
  \/ \E p \in 1..MaxProbes : TransferNext(p) /\ TransferFrame
  \/ FallbackToMemoryQueue /\ UNCHANGED <<sut, workload, processingInterval, memVars, redisVars, callVars>>
  \/ Advance

InitCoord ==
  /\ sut = "coord"
  /\ MemInit /\ RedisInit /\ ObsInit /\ CoordInit
  /\ workload = [observe |-> FALSE, jobs |-> CoordJobs, changes |-> MaxRedisChanges, ticks |-> 1,
                 first |-> {[attempts |-> 2, delay |-> 2000]},
                 rest |-> {[attempts |-> 1, delay |-> 0]}]

SpecCoord == InitCoord /\ [][NextCoord]_vars

\* the coordinator while Redis stays unreachable, every call of the processor
\* to jobCompleted/jobFailed observed
NextLocal ==
  \/ \E o \in Opts(Added + 1) :
       /\ Added < workload.jobs
       /\ QAddMemory(o.attempts, o.delay) /\ UNCHANGED <<sut, workload, processingInterval, redisVars, lastSignal>>
  \/ \E t \in mDelayTimers : MemMoveFromDelayedToWaiting(t) /\ MemFrame
  \/ MemProcessNextJob /\ MemFrame
  \/ \E t \in mRetryTimers : MemRetry(t) /\ MemFrame
  \/ \E p \in mPending : MemJobTimeout(p) /\ MemFrame
  \/ \E id \in 1..Len(invoked) :
       Signalled(id) /\ QJobCompleted(id) /\ UNCHANGED <<sut, workload, processingInterval, redisVars, coordVars, callVars>>
  \/ \E id \in 1..Len(invoked), e \in ErrChoices :
       Signalled(id) /\ QJobFailed(id, e) /\ UNCHANGED <<sut, workload, processingInterval, redisVars, coordVars, callVars>>
  \/ Advance

InitLocal ==
  /\ sut = "coord"
  /\ MemInit /\ RedisInit /\ ObsInit /\ CoordInit
  /\ workload = [observe |-> TRUE, jobs |-> SignalJobs, changes |-> MaxRedisChanges, ticks |-> 1,
                 first |-> [attempts : {2}, delay : DelayChoices],
                 rest |-> {[attempts |-> 1, delay |-> 0]}]

SpecLocal == InitLocal /\ [][NextLocal]_vars

\* Scenario A: Redis stays unreachable, every job is added with no delay and
\* three attempts (given or by default), and the processor reports a failure
\* for every job it is invoked with
NextScenarioA ==
  \/ \E o \in Opts(Added + 1) :
       /\ Added < workload.jobs
       /\ QAddMemory(o.attempts, o.delay) /\ UNCHANGED <<sut, workload, processingInterval, redisVars, lastSignal>>
  \/ MemProcessNextJob /\ MemFrame
  \/ \E t \in mRetryTimers : MemRetry(t) /\ MemFrame
  \/ \E p \in mPending : MemJobTimeout(p) /\ MemFrame
  \/ \E id \in 1..Len(invoked), e \in ErrChoices :
       Signalled(id) /\ QJobFailed(id, e) /\ UNCHANGED <<sut, workload, processingInterval, redisVars, coordVars, callVars>>
  \/ Advance

InitScenarioA ==
  /\ sut = "coord"
  /\ MemInit /\ RedisInit /\ ObsInit /\ CoordInit
  /\ workload = [observe |-> FALSE, jobs |-> ScenarioJobs, changes |-> MaxRedisChanges, ticks |-> 1,
                 first |-> [attempts : {0, 3}, delay : {0}],
                 rest |-> {[attempts |-> 3, delay |-> 0]}]

\* the 1 s interval keeps calling processNextJob, timers fire when due and
\* time passes
SpecScenarioA ==
  /\ InitScenarioA
  /\ [][NextScenarioA]_vars
  /\ WF_vars(MemProcessNextJob /\ MemFrame)
  /\ WF_vars(\E t \in mRetryTimers : MemRetry(t) /\ MemFrame)
  /\ WF_vars(\E p \in mPending : MemJobTimeout(p) /\ MemFrame)
  /\ WF_vars(Advance)

\* Scenario C: Redis stays unreachable, more jobs than the ceiling are added
\* with no delay, and the processor calls jobCompleted for every job it is
\* invoked with, before any timer is due
NextScenarioC ==
  \/ \E o \in Opts(Added + 1) :
       /\ Added < workload.jobs
       /\ QAddMemory(o.attempts, o.delay) /\ UNCHANGED <<sut, workload, processingInterval, redisVars, lastSignal>>
  \/ MemProcessNextJob /\ MemFrame
  \/ \E id \in 1..Len(invoked) :
       Signalled(id) /\ QJobCompleted(id) /\ UNCHANGED <<sut, workload, processingInterval, redisVars, coordVars, callVars>>

InitScenarioC ==
  /\ sut = "coord"
  /\ MemInit /\ RedisInit /\ ObsInit /\ CoordInit
  /\ workload = [observe |-> FALSE, jobs |-> ScenarioCJobs, changes |-> MaxRedisChanges, ticks |-> 1,
                 first |-> [attempts : {0, 1}, delay : {0}],
                 rest |-> {[attempts |-> 0, delay |-> 0]}]

\* the 1 s interval keeps calling processNextJob and the processor answers
SpecScenarioC ==
  /\ InitScenarioC
  /\ [][NextScenarioC]_vars
  /\ WF_vars(MemProcessNextJob /\ MemFrame)
  /\ WF_vars(\E id \in 1..Len(invoked) :
               Signalled(id) /\ QJobCompleted(id)
                 /\ UNCHANGED <<sut, workload, processingInterval, redisVars, coordVars, callVars>>)

\* the coordinator started on Redis, with the timers of the memory queue, the
\* probe and the recovery it starts, and the fallback all fair
InitDelivery ==
  /\ sut = "coord"
  /\ MemInit /\ RedisInit /\ ObsInitRedis /\ CoordInitRedis
  /\ workload = [observe |-> FALSE, jobs |-> DeliveryJobs, changes |-> MaxRedisChanges, ticks |-> 1,
                 first |-> [attempts : {2}, delay : DelayChoices],
                 rest |-> {[attempts |-> 1, delay |-> 0]}]

SpecDelivery ==
  /\ InitDelivery
  /\ [][NextCoord]_vars
  /\ WF_vars(\E t \in mDelayTimers : MemMoveFromDelayedToWaiting(t) /\ MemFrame)
  /\ WF_vars(MemProcessNextJob /\ MemFrame)
  /\ WF_vars(\E t \in mRetryTimers : MemRetry(t) /\ MemFrame)
  /\ WF_vars(\E p \in mPending : MemJobTimeout(p) /\ MemFrame)
  /\ WF_vars(\E p \in 1..MaxProbes : CheckRedisRecovery(p) /\ CoordFrame)
  /\ WF_vars(\E p \in 1..MaxProbes : TestRedisConnection(p) /\ CoordFrame)
  /\ WF_vars(\E p \in 1..MaxProbes : InitializeRedisQueue(p) /\ CoordFrame)
  /\ WF_vars(\E p \in 1..MaxProbes : TransferNext(p) /\ TransferFrame)
  /\ WF_vars(FallbackToMemoryQueue /\ UNCHANGED <<sut, workload, processingInterval, memVars, redisVars, callVars>>)
  /\ WF_vars(Advance)

\* the coordinator as in SpecCoord, every call of the processor to
\* jobCompleted/jobFailed observed
InitRouting ==
  /\ sut = "coord"
  /\ MemInit /\ RedisInit /\ ObsInit /\ CoordInit
  /\ workload = [observe |-> TRUE, jobs |-> RoutingJobs, changes |-> MaxRedisChanges, ticks |-> 1,
                 first |-> [attempts : {2}, delay : DelayChoices],
                 rest |-> {[attempts |-> 1, delay |-> 0]}]

SpecRouting == InitRouting /\ [][NextCoord]_vars

\* the coordinator while Redis stays unreachable, with a caller that calls one
\* getter of the memory queue and keeps the array
NextGetters ==
  \/ \E o \in Opts(Added + 1) :
       /\ Added < workload.jobs
       /\ QAddMemory(o.attempts, o.delay) /\ UNCHANGED <<sut, workload, processingInterval, redisVars, lastSignal>>
  \/ \E t \in mDelayTimers : MemMoveFromDelayedToWaiting(t) /\ MemFrame
  \/ MemProcessNextJob /\ MemFrame
  \/ \E t \in mRetryTimers : MemRetry(t) /\ MemFrame
  \/ \E p \in mPending : MemJobTimeout(p) /\ MemFrame
  \/ \E id \in 1..Len(invoked) :
       Signalled(id) /\ QJobCompleted(id) /\ UNCHANGED <<sut, workload, processingInterval, redisVars, coordVars, callVars>>
  \/ \E id \in 1..Len(invoked), e \in ErrChoices :
       Signalled(id) /\ QJobFailed(id, e) /\ UNCHANGED <<sut, workload, processingInterval, redisVars, coordVars, callVars>>
  \/ \E q \in {mWaiting, mActive, mCompleted, mFailed, mDelayed} :
       /\ ~held.taken /\ q # <<>>
       /\ MemGetter(q)
       /\ UNCHANGED <<sut, workload, processingInterval, redisVars, lastSignal, coordVars, addCall>>
  \/ Advance

InitGetters ==
  /\ sut = "coord"
  /\ MemInit /\ RedisInit /\ ObsInit /\ CoordInit
  /\ workload = [observe |-> FALSE, jobs |-> GetterJobs, changes |-> MaxRedisChanges, ticks |-> 1,
                 first |-> [attempts : {2}, delay : DelayChoices],
                 rest |-> {[attempts |-> 1, delay |-> 0]}]

SpecGetters == InitGetters /\ [][NextGetters]_vars

\* the coordinator started on the memory queue while Redis comes and goes:
\* the recovery monitor, the error handler of the connection, one caller
NextRecovery ==
  \/ \E o \in Opts(Added + 1) :
       /\ Added < workload.jobs
       /\ QAddMemory(o.attempts, o.delay) /\ UNCHANGED <<sut, workload, processingInterval, redisVars, lastSignal>>
  \/ RedisChange /\ CoordFrame
  \/ \E p \in 1..MaxProbes : CheckRedisRecovery(p) /\ CoordFrame
  \/ \E p \in 1..MaxProbes : TestRedisConnection(p) /\ CoordFrame
  \/ \E p \in 1..MaxProbes : InitializeRedisQueue(p) /\ CoordFrame
  \/ \E p \in 1..MaxProbes : TransferNext(p) /\ TransferFrame
  \/ FallbackToMemoryQueue /\ UNCHANGED <<sut, workload, processingInterval, memVars, redisVars, callVars>>

InitRecovery ==
  /\ sut = "coord"
  /\ MemInit /\ RedisInit /\ ObsInit /\ CoordInit
  /\ workload = [observe |-> FALSE, jobs |-> RecoveryJobs, changes |-> RecoveryChanges, ticks |-> 1,
                 first |-> {[attempts |-> 1, delay |-> 0]},
                 rest |-> {[attempts |-> 1, delay |-> 0]}]

SpecRecovery == InitRecovery /\ [][NextRecovery]_vars

\* SpecRecovery with the 30 s interval of startRecoveryMonitoring firing again
\* and again and every await of a probe and of a recovery answered in the end
SpecHealing ==
  /\ InitRecovery
  /\ [][NextRecovery]_vars
  /\ WF_vars(\E p \in 1..MaxProbes : CheckRedisRecovery(p) /\ CoordFrame)
  /\ WF_vars(\E p \in 1..MaxProbes : TestRedisConnection(p) /\ CoordFrame)
  /\ WF_vars(\E p \in 1..MaxProbes : InitializeRedisQueue(p) /\ CoordFrame)
  /\ WF_vars(\E p \in 1..MaxProbes : TransferNext(p) /\ TransferFrame)

\* the coordinator started on the memory queue, the recovery monitor, and a
\* Redis server that may be unreachable or read-only
NextProbe ==
  \/ \E o \in Opts(Added + 1) :
       /\ Added < workload.jobs
       /\ QAddMemory(o.attempts, o.delay) /\ UNCHANGED <<sut, workload, processingInterval, redisVars, lastSignal>>
  \/ RedisChange /\ CoordFrame
  \/ RedisWriteChange /\ CoordFrame
  \/ \E p \in 1..MaxProbes : CheckRedisRecovery(p) /\ CoordFrame
  \/ \E p \in 1..MaxProbes : TestRedisConnection(p) /\ CoordFrame
  \/ \E p \in 1..MaxProbes : InitializeRedisQueue(p) /\ CoordFrame
  \/ \E p \in 1..MaxProbes : TransferNext(p) /\ TransferFrame

InitProbe ==
  /\ sut = "coord"
  /\ MemInit /\ RedisInit /\ ObsInit /\ CoordInit
  /\ workload = [observe |-> FALSE, jobs |-> ProbeJobs, changes |-> MaxRedisChanges, ticks |-> 1,
                 first |-> {[attempts |-> 1, delay |-> 0]},
                 rest |-> {[attempts |-> 1, delay |-> 0]}]

SpecProbe == InitProbe /\ [][NextProbe]_vars

\* the coordinator with a job that is retried and a job that is delayed, so
\* that a recovery finds an active job with attempts made and a delayed job
\* part of whose delay has passed
InitTransfer ==
  /\ sut = "coord"
  /\ MemInit /\ RedisInit /\ ObsInit /\ CoordInit
  /\ workload = [observe |-> FALSE, jobs |-> TransferJobs, changes |-> MaxRedisChanges, ticks |-> 1,
                 first |-> {[attempts |-> 2, delay |-> 0]},
                 rest |-> {[attempts |-> 1, delay |-> 3000]}]

SpecTransfer == InitTransfer /\ [][NextCoord]_vars

\* one backend fed with many jobs of one attempt each, the next one added when
\* the one before is finished; the
\* processor answers every invocation before the timeout: it completes the
\* first CapsCompleting jobs and fails the later ones
NextCaps ==
  \/ \E o \in Opts(mCounter) :
       /\ sut = "memory" /\ mCounter <= workload.jobs
       /\ mWaiting = <<>> /\ mActive = <<>>
       /\ MemAdd(o.attempts, o.delay) /\ MemFrame
  \/ MemProcessNextJob /\ MemFrame
  \/ \E id \in 1..Len(invoked) :
       Signalled(id) /\ id <= CapsCompleting /\ MemJobCompleted(id) /\ MemFrame
  \/ \E id \in 1..Len(invoked), e \in ErrChoices :
       Signalled(id) /\ id > CapsCompleting /\ MemJobFailed(id, e) /\ MemFrame
  \/ \E o \in Opts(rCounter) :
       /\ sut = "redis" /\ rCounter <= workload.jobs
       /\ rWaiting = <<>> /\ rPending = <<>>
       /\ RedisAdd(o.attempts, o.delay) /\ RedisFrame
  \/ sut = "redis" /\ RedisLoopLlen /\ RedisFrame
  \/ sut = "redis" /\ RedisLoopPop /\ RedisFrame
  \/ \E id \in rPublished : id <= CapsCompleting /\ RedisJobCompleted(id) /\ RedisFrame
  \/ \E id \in rPublished, e \in ErrChoices :
       id > CapsCompleting /\ RedisJobFailed(id, e) /\ RedisFrame
  \/ \E i \in 1..Len(rPending) : RedisMoveJobToCompleted(i) /\ RedisFrame
  \/ \E i \in 1..Len(rPending) : RedisHandleJobFailure(i) /\ RedisFrame

InitCaps ==
  /\ BackendInit
  /\ workload = [observe |-> FALSE, jobs |-> CapsJobs, changes |-> MaxRedisChanges, ticks |-> 1,
                 first |-> {[attempts |-> 1, delay |-> 0]},
                 rest |-> {[attempts |-> 1, delay |-> 0]}]

SpecCaps == InitCaps /\ [][NextCaps]_vars

\* one backend with a delayed job, and a Redis slow enough for the 5 s
\* interval to fire while the previous processDelayedJobs is still awaiting
InitPromotion ==
  /\ BackendInit
  /\ workload = [observe |-> FALSE, jobs |-> PromotionJobs, changes |-> MaxRedisChanges,
                 ticks |-> MaxTicks,
                 first |-> {[attempts |-> 2, delay |-> 2000]},
                 rest |-> {[attempts |-> 1, delay |-> 0]}]

SpecPromotion == InitPromotion /\ [][Next]_vars

\* the coordinator between its two backends while no job is processed: the
\* callers of add(), the recovery monitor, the error handler of the connection
NextSwitch ==
  \/ \E o \in Opts(Added + 1) :
       /\ Added < workload.jobs
       /\ QAddMemory(o.attempts, o.delay) /\ UNCHANGED <<sut, workload, processingInterval, redisVars, lastSignal>>
  \/ \E o \in Opts(Added + 1) :
       /\ Added < workload.jobs
       /\ QAddStart(o.attempts, o.delay)
       /\ UNCHANGED <<sut, workload, processingInterval, memVars, redisVars, obsVars, held>>
  \/ QAddBull /\ UNCHANGED <<sut, workload, processingInterval, memVars, redisVars, obsVars, held>>
  \/ QAddFallback /\ UNCHANGED <<sut, workload, processingInterval, redisVars, lastSignal, held>>
  \/ RedisChange /\ CoordFrame
  \/ \E p \in 1..MaxProbes : CheckRedisRecovery(p) /\ CoordFrame
  \/ \E p \in 1..MaxProbes : TestRedisConnection(p) /\ CoordFrame
  \/ \E p \in 1..MaxProbes : InitializeRedisQueue(p) /\ CoordFrame
  \/ \E p \in 1..MaxProbes : TransferNext(p) /\ TransferFrame
  \/ FallbackToMemoryQueue /\ UNCHANGED <<sut, workload, processingInterval, memVars, redisVars, callVars>>

InitSwitch ==
  /\ sut = "coord"
  /\ MemInit /\ RedisInit /\ ObsInit /\ CoordInit
  /\ workload = [observe |-> FALSE, jobs |-> SwitchJobs, changes |-> MaxRedisChanges, ticks |-> 1,
                 first |-> {[attempts |-> 2, delay |-> 2000]},
                 rest |-> {[attempts |-> 1, delay |-> 0]}]

SpecSwitch == InitSwitch /\ [][NextSwitch]_vars

\* the persistent backend alone, with more jobs than the ceiling: add(), the
\* 5 s interval, the processWaitingJobs loop, the processor's signals, the
\* timeouts and the continuations of processJob
NextStall ==
  \/ \E o \in Opts(rCounter) :
       /\ rCounter <= workload.jobs
       /\ RedisAdd(o.attempts, o.delay) /\ RedisFrame
  \/ RedisProcessDelayedJobs /\ RedisFrame
  \/ \E k \in 1..Len(rTicks) : RedisPromoteLpush(k) /\ RedisFrame
  \/ \E k \in 1..Len(rTicks) : RedisPromoteZrem(k) /\ RedisFrame
  \/ RedisLoopLlen /\ RedisFrame
  \/ RedisLoopPop /\ RedisFrame
  \/ \E id \in rPublished : RedisJobCompleted(id) /\ RedisFrame
  \/ \E id \in rPublished, e \in ErrChoices : RedisJobFailed(id, e) /\ RedisFrame
  \/ \E i \in 1..Len(rPending) : RedisJobTimeout(i) /\ RedisFrame
  \/ \E i \in 1..Len(rPending) : RedisMoveJobToCompleted(i) /\ RedisFrame
  \/ \E i \in 1..Len(rPending) : RedisHandleJobFailure(i) /\ RedisFrame
  \/ Advance

InitStall ==
  /\ sut = "redis"
  /\ MemInit /\ RedisInit /\ ObsInit /\ CoordInit
  /\ workload = [observe |-> FALSE, jobs |-> StallJobs, changes |-> MaxRedisChanges, ticks |-> 1,
                 first |-> {[attempts |-> 2, delay |-> 0]},
                 rest |-> {[attempts |-> 1, delay |-> 0]}]

\* the loop and the interval keep running, Redis answers every command, time
\* passes, and every rendezvous ends: by a signal of the processor or, at the
\* latest, by its 30 s timeout
SpecStall ==
  /\ InitStall
  /\ [][NextStall]_vars
  /\ WF_vars(RedisProcessDelayedJobs /\ RedisFrame)
  /\ WF_vars(\E k \in 1..Len(rTicks) : RedisPromoteLpush(k) /\ RedisFrame)
  /\ WF_vars(\E k \in 1..Len(rTicks) : RedisPromoteZrem(k) /\ RedisFrame)
  /\ WF_vars(RedisLoopLlen /\ RedisFrame)
  /\ WF_vars(RedisLoopPop /\ RedisFrame)
  /\ WF_vars(\E i \in 1..Len(rPending) : RedisJobTimeout(i) /\ RedisFrame)
  /\ WF_vars(\E i \in 1..Len(rPending) : RedisMoveJobToCompleted(i) /\ RedisFrame)
  /\ WF_vars(\E i \in 1..Len(rPending) : RedisHandleJobFailure(i) /\ RedisFrame)
  /\ WF_vars(Advance)

\* the coordinator started on Redis, with a Redis that can take longer than
\* 3 s to answer: the callers of add(), the recovery monitor, the error
\* handler of the connection
NextLate ==
  \/ \E o \in Opts(Added + 1) :
       /\ Added < workload.jobs
       /\ QAddMemory(o.attempts, o.delay) /\ UNCHANGED <<sut, workload, processingInterval, redisVars, lastSignal>>
  \/ \E o \in Opts(Added + 1) :
       /\ Added < workload.jobs
       /\ QAddStart(o.attempts, o.delay)
       /\ UNCHANGED <<sut, workload, processingInterval, memVars, redisVars, obsVars, held>>
  \/ QAddBull /\ UNCHANGED <<sut, workload, processingInterval, memVars, redisVars, obsVars, held>>
  \/ QAddFallback /\ UNCHANGED <<sut, workload, processingInterval, redisVars, lastSignal, held>>
  \/ QAddTimeout /\ UNCHANGED <<sut, workload, processingInterval, redisVars, lastSignal, held>>
  \/ QAddLate /\ UNCHANGED <<sut, workload, processingInterval, memVars, redisVars, obsVars, held>>
  \/ QAddLateRejected /\ UNCHANGED <<sut, workload, processingInterval, memVars, redisVars, obsVars, held>>
  \/ RedisChange /\ CoordFrame
  \/ \E p \in 1..MaxProbes : CheckRedisRecovery(p) /\ CoordFrame
  \/ \E p \in 1..MaxProbes : TestRedisConnection(p) /\ CoordFrame
  \/ \E p \in 1..MaxProbes : InitializeRedisQueue(p) /\ CoordFrame
  \/ \E p \in 1..MaxProbes : TransferNext(p) /\ TransferFrame
  \/ FallbackToMemoryQueue /\ UNCHANGED <<sut, workload, processingInterval, memVars, redisVars, callVars>>

InitLate ==
  /\ sut = "coord"
  /\ MemInit /\ RedisInit /\ ObsInitRedis /\ CoordInitRedis
  /\ workload = [observe |-> FALSE, jobs |-> LateJobs, changes |-> MaxRedisChanges, ticks |-> 1,
                 first |-> [attempts : {2}, delay : DelayChoices],
                 rest |-> {[attempts |-> 1, delay |-> 0]}]

SpecLate == InitLate /\ [][NextLate]_vars

\* the coordinator while Redis stays unreachable, with a processor of which
\* each invocation calls jobCompleted or jobFailed when it is done, be it after
\* the timeout of the attempt it was started for
NextAttempt ==
  \/ \E o \in Opts(Added + 1) :
       /\ Added < workload.jobs
       /\ QAddMemory(o.attempts, o.delay) /\ UNCHANGED <<sut, workload, processingInterval, redisVars, lastSignal>>
  \/ MemProcessNextJob /\ MemFrame
  \/ \E t \in mRetryTimers : MemRetry(t) /\ MemFrame
  \/ \E p \in mPending : MemJobTimeout(p) /\ MemFrame
  \/ \E id \in 1..Len(invoked) : \E k \in 1..invoked[id] :
       QJobCompletedBy(id, k) /\ UNCHANGED <<sut, workload, processingInterval, redisVars, coordVars, callVars>>
  \/ \E id \in 1..Len(invoked), e \in ErrChoices : \E k \in 1..invoked[id] :
       QJobFailedBy(id, k, e) /\ UNCHANGED <<sut, workload, processingInterval, redisVars, coordVars, callVars>>
  \/ Advance

InitAttempt ==
  /\ sut = "coord"
  /\ MemInit /\ RedisInit /\ ObsInit /\ CoordInit
  /\ workload = [observe |-> TRUE, jobs |-> AttemptJobs, changes |-> MaxRedisChanges, ticks |-> 1,
                 first |-> {[attempts |-> 2, delay |-> 0]},
                 rest |-> {[attempts |-> 1, delay |-> 0]}]

SpecAttempt == InitAttempt /\ [][NextAttempt]_vars

\* the coordinator between its two backends with the recovery monitor as its
\* timing makes it run: testRedisConnection() gives up after 4 s and the
\* interval fires every 30 s, so an execution of checkRedisRecovery() has left
\* its test (and set pendingRecovery, if it recovers) when the next one
\* starts; an execution that starts during a recovery returns at once
NextSolo ==
  \/ \E o \in Opts(Added + 1) :
       /\ Added < workload.jobs
       /\ QAddMemory(o.attempts, o.delay) /\ UNCHANGED <<sut, workload, processingInterval, redisVars, lastSignal>>
  \/ \E o \in Opts(Added + 1) :
       /\ Added < workload.jobs
       /\ QAddStart(o.attempts, o.delay)
       /\ UNCHANGED <<sut, workload, processingInterval, memVars, redisVars, obsVars, held>>
  \/ QAddBull /\ UNCHANGED <<sut, workload, processingInterval, memVars, redisVars, obsVars, held>>
  \/ QAddFallback /\ UNCHANGED <<sut, workload, processingInterval, redisVars, lastSignal, held>>
  \/ RedisChange /\ CoordFrame
  \/ CheckRedisRecovery(1) /\ CoordFrame
  \/ TestRedisConnection(1) /\ CoordFrame
  \/ InitializeRedisQueue(1) /\ CoordFrame
  \/ TransferNext(1) /\ TransferFrame
  \/ FallbackToMemoryQueue /\ UNCHANGED <<sut, workload, processingInterval, memVars, redisVars, callVars>>

InitSolo ==
  /\ sut = "coord"
  /\ MemInit /\ RedisInit /\ ObsInit /\ CoordInit
  /\ workload = [observe |-> FALSE, jobs |-> SoloJobs, changes |-> SoloChanges, ticks |-> 1,
                 first |-> {[attempts |-> 2, delay |-> 2000]},
                 rest |-> {[attempts |-> 1, delay |-> 0]}]

SpecSolo == InitSolo /\ [][NextSolo]_vars

\* ------------------------------------------------------------- properties
\* onModuleDestroy() of MemoryQueueService: clearInterval(processingInterval);
\* the timers of add, processJob and handleJobFailure and the listeners of the
\* rendezvous are left as they are
MemOnModuleDestroy ==
  /\ processingInterval
  /\ processingInterval' = FALSE
  /\ UNCHANGED <<sut, workload, memVars, redisVars, obsVars, coordVars, callVars>>

\* the coordinator on the memory queue and the shutdown of the module
NextShutdown ==
  \/ \E o \in Opts(Added + 1) :
       /\ Added < workload.jobs
       /\ QAddMemory(o.attempts, o.delay) /\ UNCHANGED <<sut, workload, processingInterval, redisVars, lastSignal>>
  \/ \E t \in mDelayTimers : MemMoveFromDelayedToWaiting(t) /\ MemFrame
  \/ MemProcessNextJob /\ MemFrame
  \/ \E t \in mRetryTimers : MemRetry(t) /\ MemFrame
  \/ \E p \in mPending : MemJobTimeout(p) /\ MemFrame
  \/ \E id \in 1..Len(invoked) :
       Signalled(id) /\ QJobCompleted(id) /\ UNCHANGED <<sut, workload, processingInterval, redisVars, coordVars, callVars>>
  \/ \E id \in 1..Len(invoked), e \in ErrChoices :
       Signalled(id) /\ QJobFailed(id, e) /\ UNCHANGED <<sut, workload, processingInterval, redisVars, coordVars, callVars>>
  \/ MemOnModuleDestroy
  \/ Advance

InitShutdown ==
  /\ sut = "coord"
  /\ MemInit /\ RedisInit /\ ObsInit /\ CoordInit
  /\ workload = [observe |-> FALSE, jobs |-> ShutdownJobs, changes |-> MaxRedisChanges, ticks |-> 1,
                 first |-> [attempts : {2}, delay : DelayChoices],
                 rest |-> {[attempts |-> 1, delay |-> 0]}]

SpecShutdown == InitShutdown /\ [][NextShutdown]_vars

MemIds == 1..(mCounter - 1)
\* the number of collections of the local backend that hold job id
MemPlaces(id) ==
  Count(mWaiting, id) + Count(mActive, id) + Count(mDelayed, id)
    + Count(mCompleted, id) + Count(mFailed, id)
\* every job text held anywhere in the persistent backend
RedisJobs ==
  Range(rWaiting) \cup Range(rActive) \cup Range(rCompleted) \cup Range(rFailed)
    \cup {rDelayed[i].job : i \in 1..Len(rDelayed)}
    \cup {rPending[i].job : i \in 1..Len(rPending)}
RedisDelayedJobs == {rDelayed[i].job : i \in 1..Len(rDelayed)}

\* C2: every job accepted by the local backend is in exactly one of waiting,
\* active, delayed, completed, failed, also while it waits for a retry.
C2_ExactlyOneCollection == \A id \in MemIds : MemPlaces(id) = 1

\* C3: in both backends attempts never exceeds maxAttempts, and a job is in
\* failed exactly when its attempts has reached maxAttempts.
C3_AttemptsBounded ==
  /\ \A id \in MemIds :
       /\ mJobs[id].attempts <= MaxAttemptsOf(mJobs[id].optAttempts)
       /\ id \in Range(mFailed)
            <=> mJobs[id].attempts = MaxAttemptsOf(mJobs[id].optAttempts)
  /\ \A j \in RedisJobs :
       /\ j.attempts <= MaxAttemptsOf(j.optAttempts)
       /\ j \in Range(rFailed) <=> j.attempts = MaxAttemptsOf(j.optAttempts)

C3_Witness ==
  \/ \E id \in Range(mFailed) :
       mJobs[id].optAttempts = 0 /\ mJobs[id].attempts = DefaultAttempts
  \/ \E j \in Range(rFailed) : j.optAttempts = 0 /\ j.attempts = DefaultAttempts

\* C4: in each backend the active collection never holds more jobs than the
\* concurrency ceiling (3).
C4_ActiveWithinCeiling == Len(mActive) <= 3 /\ Len(rActive) <= 3

C4_Witness == Len(mActive) = 3 /\ Len(mWaiting) > 0

C7_DelayedUntilDue ==
  [][ /\ (mCounter' = mCounter + 1 /\ mJobs'[mCounter].delay > 0)
           => (mCounter \in Range(mDelayed') /\ mCounter \notin Range(mWaiting'))
      /\ \A id \in 1..(mCounter' - 1) :
           id \in Range(mWaiting') \cup Range(mActive') => mJobs'[id].wait = 0
      /\ rCounter' = rCounter + 1
           => \E j \in Range(rWaiting') \cup {rDelayed'[i].job : i \in 1..Len(rDelayed')} :
                /\ j.id = rCounter
                /\ j.delay > 0 => (j \notin Range(rWaiting')
                                    /\ \E i \in 1..Len(rDelayed') : rDelayed'[i].job = j)
      /\ \A j \in Range(rWaiting') \cup Range(rActive') : j.wait = 0
    ]_vars

C7_Witness ==
  \/ \E id \in Range(mWaiting) : mJobs[id].delay > 0
  \/ \E j \in Range(rWaiting) : j.delay > 0

\* C8: when a failure is handled and the job is to be retried, the delay until
\* it can re-enter waiting is min(1000 * 2^n, 30000) ms, n being the job's
\* attempts after the increment; in both backends.
C8_Backoff(n) == IF 1000 * (2 ^ n) < 30000 THEN 1000 * (2 ^ n) ELSE 30000

C1_RecoveryMovesJobs ==
  [][\A p \in 1..MaxProbes :
       (probes[p].pc = "transfer" /\ probes'[p].pc = "idle" /\ isRedisAvailable')
       => /\ Cardinality(bJobs') = probes[p].total
          /\ Len(mWaiting') + Len(mActive') + Len(mDelayed') = 0
    ]_vars

\* C5: at most one execution of the body of performRecovery() is in progress
\* at any instant, however the probe executions overlap.
C5_OneRecovery ==
  Cardinality({p \in 1..MaxProbes : probes[p].pc \in {"init", "switch", "transfer"}}) <= 1

C5_Witness ==
  \E p, q \in 1..MaxProbes :
    /\ probes[p].pc \in {"init", "switch", "transfer"}
    /\ probes[q].pc = "testing"
    /\ redisUp

\* C9: a jobCompleted(jobId) or jobFailed(jobId) for a job that an earlier
\* jobCompleted(jobId) has resolved changes no collection, no job's attempts
\* and no pending rendezvous.
C9_SecondSignalNoOp ==
  [][(lastSignal' # lastSignal /\ lastSignal'.id \in Range(mCompleted))
       => UNCHANGED <<memVars, invoked>>
    ]_vars

C9_Witness ==
  /\ lastSignal.again
  /\ lastSignal.id \in Range(mCompleted)
  /\ mPending # {}

\* C10: Scenario A. While the persistent backend is down a job added with
\* three attempts lands in the local waiting; with a processor that reports
\* a failure every time, the job is invoked exactly 3 times and ends in the
\* local failed with attempts = 3, where it stays.
C10_ScenarioA ==
  /\ [][mCounter' = mCounter + 1
          => (mCounter \in Range(mWaiting') /\ bJobs' = {})]_vars
  /\ [](\A id \in 1..ScenarioJobs : id < mCounter => invoked[id] <= 3)
  /\ \A id \in 1..ScenarioJobs :
       (id < mCounter)
         ~> [](/\ id < mCounter
               /\ id \in Range(mFailed)
               /\ MemPlaces(id) = 1
               /\ mJobs[id].attempts = 3
               /\ invoked[id] = 3)

C10_Witness ==
  \E id \in Range(mFailed) :
    /\ mJobs[id].attempts = 3
    /\ mJobs[id].optAttempts = 3
    /\ invoked[id] = 3
    /\ ~redisUp /\ ~isRedisAvailable

\* C11: Scenario C. With 5 jobs added with no delay and a processor that always
\* signals success, at most 3 jobs are in active at any time and every added
\* job eventually reaches completed and stays there.
C11_ScenarioC ==
  /\ [](Len(mActive) <= 3)
  /\ \A id \in 1..ScenarioCJobs :
       (id < mCounter) ~> [](id \in Range(mCompleted) /\ MemPlaces(id) = 1)

C11_Witness ==
  /\ Len(mCompleted) = 5
  /\ \A id \in 1..5 : invoked[id] = 1

\* C12: every job that add() stored (here: in the memory queue, diverted or
\* not) eventually has the registered processor invoked for it at least once.
C12_AtLeastOnce ==
  \A id \in 1..DeliveryJobs :
    (id < mCounter) ~> (id < mCounter /\ invoked[id] >= 1)

\* C13: an add() whose write to the persistent backend failed (rejection or
\* 3 s timeout) returns a job stored in the local backend; it never throws.
C13_WriteFailureFallsBack ==
  [][(addCall.open /\ ~addCall'.open /\ bCounter' = bCounter)
       => (/\ mCounter' = mCounter + 1
           /\ Count(mWaiting', mCounter) + Count(mDelayed', mCounter) = 1)
    ]_vars

\* C14: the outcome of an add() call is decided by the value of the
\* active-backend flag it read first: when the flag has changed while the
\* call awaited the persistent write, the call ends as it does when the flag
\* has not changed (for a failed write: with the job stored locally).
C14_SingleRead ==
  [][(addCall.open /\ ~addCall'.open /\ bCounter' = bCounter
        /\ isRedisAvailable # addCall.read)
       => mCounter' = mCounter + 1
    ]_vars

\* C15: a jobCompleted(jobId) or jobFailed(jobId, err) call for a job that is
\* active in the local backend with a pending rendezvous resolves that
\* rendezvous, whichever backend is the active one at the time of the call.
C15_SignalReachesOwner ==
  [][(lastSignal' # lastSignal /\ \E p \in mPending : p.id = lastSignal'.id)
       => ~(\E p \in mPending' : p.id = lastSignal'.id)
    ]_vars

\* C16: each transition of a job from waiting to active invokes the processor
\* exactly once for that job, after any sequence of registrations, fallbacks
\* and recoveries.
C16_OneProcessor ==
  [][Len(mActive') > Len(mActive)
       => LET id == mActive'[Len(mActive')]
          IN  invoked'[id] = invoked[id] + 1
    ]_vars

\* C17: what a caller reads in an array returned by a getter (the attempts and
\* the last error of its jobs) is not changed by later transitions of the
\* backend.
C17_GettersReturnCopies ==
  held.taken => JobView(held.ids) = held.seen

\* C18: add() with a negative delay is rejected and creates no job: no
\* collection of either backend ever holds a job added with a negative delay.
C18_NegativeDelayRejected ==
  /\ \A id \in MemIds : mJobs[id].delay >= 0
  /\ \A j \in RedisJobs : j.delay >= 0

\* C19: once onModuleDestroy has run, no job of the local backend enters or
\* leaves waiting or delayed any more (no dequeue, no promotion of a delayed
\* job, no retry re-insertion) and no job is left with an unresolved rendezvous.
C19_ShutdownStopsEverything ==
  [][~processingInterval' =>
       /\ mPending' = {}
       /\ ~processingInterval =>
            \A id \in MemIds : Count(mWaiting', id) = Count(mWaiting, id)
                               /\ Count(mDelayed', id) = Count(mDelayed, id)]_vars

\* a recovery is executing in some execution of checkRedisRecovery
RecoveryRunning == \E p \in 1..MaxProbes : probes[p].pc \in {"init", "switch", "transfer"}

\* C20: a recovery starts only from a state where the probe has just found
\* Redis reachable, pendingRecovery is false and recoveryAttempts is below 10;
\* recoveryAttempts never exceeds 10; pendingRecovery is true exactly while a
\* recovery is executing.
C20_RecoveryGuard ==
  /\ [](recoveryInfo.recoveryAttempts <= MAX_RECOVERY_ATTEMPTS)
  /\ [](recoveryInfo.pendingRecovery <=> RecoveryRunning)
  /\ [][recoveryInfo'.recoveryAttempts # recoveryInfo.recoveryAttempts =>
          /\ redisUp
          /\ \E p \in 1..MaxProbes : probes[p].pc = "testing" /\ probes'[p].pc \in {"init", "switch"}
          /\ ~recoveryInfo.pendingRecovery /\ recoveryInfo'.pendingRecovery
          /\ recoveryInfo.recoveryAttempts < MAX_RECOVERY_ATTEMPTS
          /\ recoveryInfo'.recoveryAttempts = recoveryInfo.recoveryAttempts + 1]_vars
\* the tenth recovery has ended and Redis is reachable again while the
\* coordinator is on the memory queue
C20_Witness ==
  /\ recoveryInfo.recoveryAttempts = MAX_RECOVERY_ATTEMPTS
  /\ ~recoveryInfo.pendingRecovery
  /\ ~isRedisAvailable /\ redisUp
  /\ \A p \in 1..MaxProbes : probes[p].pc = "idle"

\* C21: a recovery starts only when Redis both answers and accepts writes: a
\* Redis that answers PING but rejects writes is reported as unavailable.
C21_ProbeConfirmsWrites ==
  [][recoveryInfo'.recoveryAttempts # recoveryInfo.recoveryAttempts =>
       redisUp /\ redisWritable]_vars

\* the time left on the timer add() has set for a delayed job, 0 once it fired
DelayLeft(id) ==
  IF \E t \in mDelayTimers : t.id = id
  THEN (CHOOSE t \in mDelayTimers : t.id = id).left
  ELSE 0

\* C22: every job a recovery submits to the BullMQ queue carries: from waiting,
\* delay 0 and the job's maxAttempts; from active, max(maxAttempts - attempts, 1)
\* attempts and delay 1000; from delayed, the job's maxAttempts and the time
\* left until timestamp + opts.delay (0 when that time has passed).
C22_TransferParameters ==
  [][\A j \in bJobs' \ bJobs :
       LET id == j.id[1]
           maxAttempts == IF mJobs[id].optAttempts = 0 THEN DefaultAttempts
                          ELSE mJobs[id].optAttempts
       IN  CASE j.id[2] = "" -> j.delay = 0 /\ j.attempts = maxAttempts
             [] j.id[2] = "-recovered" ->
                  /\ j.delay = 1000
                  /\ j.attempts = IF maxAttempts - mJobs[id].attempts > 1
                                  THEN maxAttempts - mJobs[id].attempts ELSE 1
             [] j.id[2] = "-delayed" ->
                  j.delay = DelayLeft(id) /\ j.attempts = maxAttempts
             [] OTHER -> TRUE]_vars

\* one recovery has submitted job 1, active after one failed attempt of two,
\* and job 2, delayed by 3000 with 1000 left
C22_Witness ==
  /\ [id |-> <<1, "-recovered">>, attempts |-> 1, delay |-> 1000] \in bJobs
  /\ [id |-> <<2, "-delayed">>, attempts |-> 1, delay |-> 1000] \in bJobs

C24_FailedRecoveryAborts ==
  /\ [][(\E p \in 1..MaxProbes : /\ probes[p].pc \in {"init", "switch"}
                                 /\ probes'[p] # probes[p]
                                 /\ ~redisUp) =>
          /\ \A p \in 1..MaxProbes : probes'[p].pc \notin {"init", "switch", "transfer"}
          /\ queue' = "none" /\ ~worker'
          /\ bJobs' = bJobs
          /\ ~isRedisAvailable' /\ ~recoveryInfo'.isRedisAvailable
          /\ ~recoveryInfo'.pendingRecovery
          /\ recoveryInfo'.recoveryAttempts = recoveryInfo.recoveryAttempts
          /\ recoveryInfo.recoveryAttempts >= 1]_vars
  /\ [][queue = "none" /\ ~addCall.open =>
          ~addCall'.open /\ bJobs' \subseteq bJobs \cup {j \in bJobs' : j.id[2] # "bull"}]_vars

\* the first recovery has failed (Redis went away before initializeRedisQueue)
\* and the memory queue holds the jobs of both add() calls
C24_Witness ==
  /\ queue = "none" /\ ~worker /\ ~isRedisAvailable /\ ~redisUp
  /\ recoveryInfo.recoveryAttempts = 1 /\ ~recoveryInfo.pendingRecovery
  /\ bJobs = {}
  /\ mCounter = 3 /\ MemPlaces(1) = 1 /\ MemPlaces(2) = 1

\* C25: in the persistent backend a job whose failure has been handled is no
\* longer in active: no job id is at once in the active list and in delayed or
\* failed.
C25_FailureRemovesActive ==
  \A a \in Range(rActive) :
    \A b \in RedisDelayedJobs \cup Range(rFailed) : a.id # b.id

\* s without its first / without its last element
DropFirst(s) == SubSeq(s, 2, Len(s))
DropLast(s) == SubSeq(s, 1, Len(s) - 1)

C27_TimeoutIsFailure ==
  [][/\ \A p \in mPending :
          (p.left = 0 /\ p \notin mPending' /\ mJobs'[p.id] # mJobs[p.id]) =>
            /\ mJobs'[p.id].attempts = mJobs[p.id].attempts + 1
            /\ p.id \notin Range(mActive')
            /\ IF mJobs'[p.id].attempts < MaxAttemptsOf(mJobs[p.id].optAttempts)
               THEN \E t \in mRetryTimers' : t.id = p.id
               ELSE p.id \in Range(mFailed')
     /\ \A i \in 1..Len(rPending) :
          (/\ rPending[i].state = "fail" /\ rPending[i].reason = "Job timeout"
           /\ \A k \in 1..Len(rPending') : rPending'[k].job.id # rPending[i].job.id) =>
            LET job == rPending[i].job
            IN  /\ \A a \in Range(rActive') : a.id # job.id
                /\ IF job.attempts + 1 < MaxAttemptsOf(job.optAttempts)
                   THEN \E d \in RedisDelayedJobs' :
                          d.id = job.id /\ d.attempts = job.attempts + 1
                   ELSE \E f \in Range(rFailed') :
                          f.id = job.id /\ f.attempts = job.attempts + 1]_vars

\* C28: the memory queue reports a job as the Redis backend does: a job whose
\* attempt failed with attempts < maxAttempts is in delayed during its backoff
\* (active -> delayed -> waiting), and every job waiting for its retry is in
\* delayed.
C28_RetryIsDelayed ==
  /\ [](\A t \in mRetryTimers : t.id \in Range(mDelayed))
  /\ [][\A id \in Range(mActive) \ Range(mActive') :
          (/\ mJobs'[id].attempts = mJobs[id].attempts + 1
           /\ mJobs'[id].attempts < MaxAttemptsOf(mJobs[id].optAttempts)) =>
            id \in Range(mDelayed')]_vars

\* C29: after startup isRedisAvailable changes, in either direction, only
\* while pendingRecovery is true, that is inside an executing performRecovery.
C29_SwapInsideRecovery ==
  [][isRedisAvailable' # isRedisAvailable => recoveryInfo.pendingRecovery]_vars

\* C30: a promotion moves a due delayed job into waiting exactly once: no job
\* text is twice in waiting, and no member of delayed is at the same time in
\* waiting or in active.
C30_PromotionExclusive ==
  /\ \A j \in Range(rWaiting) : Count(rWaiting, j) = 1
  /\ \A d \in RedisDelayedJobs : d \notin Range(rWaiting) \cup Range(rActive)

\* C31: waiting is first in, first out: of two jobs added with no delay to the
\* same backend, the one added first has been made active by the time the
\* other one is made active.
C31_WaitingIsFifo ==
  /\ \A a, b \in MemIds :
       (a < b /\ mJobs[a].delay = 0 /\ mJobs[b].delay = 0 /\ invoked[b] > 0)
         => invoked[a] > 0
  /\ \A a, b \in RedisJobs :
       (a.id < b.id /\ a.delay = 0 /\ b.delay = 0 /\ b.id \in rPublished)
         => a.id \in rPublished

C31_Witness ==
  \/ /\ mCounter > 4 /\ invoked[2] > 0 /\ invoked[3] > 0 /\ invoked[4] = 0
     /\ 4 \in Range(mWaiting)
  \/ /\ rCounter > 4 /\ {2, 3} \subseteq rPublished /\ 4 \notin rPublished
     /\ \E j \in Range(rWaiting) : j.id = 4

\* C32: in the local backend the retry after a job's k-th failure is delayed
\* min(1000 * 2^(k-1), 30000) ms: 1 s after the first failure, then 2 s, 4 s,
\* 8 s, ..., each delay double the one before, up to 30 s.
C32_BackoffSequence ==
  [][\A id \in MemIds :
       (mJobs'[id].attempts = mJobs[id].attempts + 1
          /\ mJobs'[id].attempts < MaxAttemptsOf(mJobs[id].optAttempts))
       => \E t \in mRetryTimers' \ mRetryTimers :
            /\ t.id = id
            /\ t.left = Min(1000 * (2 ^ (mJobs'[id].attempts - 1)), 30000)
    ]_vars

\* C33: in every state the recovery info reports the backend in use:
\* recoveryInfo.isRedisAvailable is true exactly when isRedisAvailable, the
\* flag add(), the getters and getQueueStatus() route by, is true.
C33_RecoveryInfoAgrees == recoveryInfo.isRedisAvailable <=> isRedisAvailable

\* C34: self-healing is live: whenever the coordinator is on the local backend
\* and Redis is reachable and stays reachable, the persistent backend
\* eventually becomes the active one, whatever recoveries and fallbacks have
\* happened before.
C34_SelfHealing == []((~isRedisAvailable /\ []redisUp) => <>isRedisAvailable)

\* C35: whenever isRedisAvailable is true, this.queue is the BullMQ queue, not
\* the memory queue and not null, however performRecovery() and a
\* fallbackToMemoryQueue() started by connection errors interleave.
C35_FlagMatchesHandle == isRedisAvailable => queue = "bull"

\* the list email:waiting holds job id
RedisWaits(id) == \E j \in Range(rWaiting) : j.id = id

\* C36: the dequeue loop of the persistent backend never stalls for good: when
\* every rendezvous ends (signal or timeout), a job that is in waiting is
\* eventually taken out of it into active, also after three or more jobs have
\* failed.
C36_LoopNeverStalls == \A id \in 1..StallJobs : RedisWaits(id) ~> ~RedisWaits(id)

\* C37: one add() call stores its job in one backend only: a call whose job
\* the BullMQ queue accepts has stored no job in the memory queue, also when
\* the 3 s timeout has made the call fall back to the memory queue.
C37_OneBackendPerCall == [][bCounter' = bCounter + 1 => addCall.mem = 0]_vars

\* the rendezvous of processJob for job id is pending
MemAwaits(id) == \E p \in mPending : p.id = id

\* C38: in the local backend a jobCompleted/jobFailed call made by the
\* processor's invocation for attempt k of a job ends the rendezvous of
\* attempt k only: a call that arrives after attempt k has timed out and the
\* job has been made active again does not complete or fail the new attempt.
C38_SignalPerAttempt ==
  [][(lastSignal' # lastSignal /\ lastSignal'.by > 0
        /\ MemAwaits(lastSignal'.id) /\ lastSignal'.id \notin {p.id : p \in mPending'})
       => lastSignal'.by = invoked[lastSignal'.id]]_vars

====
